---- MODULE Spec2Model ----
(***************************************************************************)
(* Post-redirect subsystem of the CMS: the post_redirects table with its   *)
(* constraints, the redirect validator (with its bounded cycle walk), the  *)
(* redirect resolver and the redirect management routes.                   *)
(***************************************************************************)
EXTENDS Integers, Sequences, FiniteSets, TLC

VARIABLES
  posts,      \* rows of the posts table
  redirects,  \* rows of the post_redirects table
  idSeq,      \* per source post: how many redirect ids the store has issued
  resp,       \* the response of the last management request
  reqs,       \* create requests in flight (between their awaits)
  resolved,   \* the last resolveRedirect call: its input, lookup outcomes, result
  read,       \* the last call of another read operation, with what it returned
  earlier     \* a caller's earlier resolveRedirect call, kept to compare with its next

vars == <<posts, redirects, idSeq, resp, reqs, resolved, read, earlier>>

(***************************************************************************)
(* Bounds of the model.                                                    *)
(***************************************************************************)
NumPosts == 2      \* posts 1..NumPosts exist at the start
MaxGen == 2        \* redirect ids the store issues per source post
ChainPosts == 11   \* posts of the long-chain specification
GuardPosts == 3    \* posts of the deletion-guard specification
NumReqs == 2       \* concurrent create requests

(***************************************************************************)
(* Absent values (JavaScript undefined / null, SQL NULL), one per type.    *)
(***************************************************************************)
NoPost == 0
NoId == 0
NoCode == 0
NoUrl == ""
NoUser == ""
NoNotes == ""
NoType == ""

MaxDepth == 10
DefaultStatusCode == 301
HttpStatusCodes == {301, 302, 307, 308}

Users == {"u1", "u2"}

\* A row of the posts table, as far as the redirect code reads it.
PostRow(p) ==
  [id |-> p,
   author_id |-> IF p % 2 = 1 THEN "u1" ELSE "u2",
   status |-> IF p = 2 THEN "draft" ELSE "published",
   slug |-> <<"slug", p>>,
   title |-> <<"title", p>>]

\* new URL(text): the texts used as inputs, with the protocol the parser
\* finds; a text with no scheme makes the constructor throw.
Urls == {"https://example.com/x", "http://example.com", "ftp://example.com", "not a url"}

ParseUrlMutant(u) == [ok |-> TRUE, protocol |-> "https:"]

ParseUrl(u) ==
  CASE u = "https://example.com/x" -> [ok |-> TRUE, protocol |-> "https:"]
    [] u = "http://example.com" -> [ok |-> TRUE, protocol |-> "http:"]
    [] u = "ftp://example.com" -> [ok |-> TRUE, protocol |-> "ftp:"]
    [] OTHER -> [ok |-> FALSE, protocol |-> ""]

(***************************************************************************)
(* The store: supabase queries and the constraints of post_redirects.      *)
(***************************************************************************)
\* .single(): exactly one row, else no data and an error.  A lookup that
\* fails transiently answers no data and an error as well.
Single(rows, fails) ==
  IF ~fails /\ Cardinality(rows) = 1
    THEN [rows |-> rows, error |-> FALSE]
    ELSE [rows |-> {}, error |-> TRUE]

TheRow(q) == CHOOSE r \in q.rows : TRUE

\* gen_random_uuid(): an id the store never issued before.
NewId(source, seq) == source * (MaxGen + 1) + seq[source] + 1

UniqueSourceMutant(rs, row) == TRUE

\* source_post_id UUID NOT NULL UNIQUE
UniqueSource(rs, row) ==
  \A r \in rs : r.id # row.id => r.source_post_id # row.source_post_id

\* target_post_id UUID REFERENCES posts(id)
TargetForeignKey(ps, row) ==
  row.target_post_id # NoPost => \E p \in ps : p.id = row.target_post_id

\* CONSTRAINT valid_redirect
ValidRedirectCheck(row) ==
  \/ row.redirect_type = "post" /\ row.target_post_id # NoPost /\ row.target_url = NoUrl
  \/ row.redirect_type = "url" /\ row.target_url # NoUrl /\ row.target_post_id = NoPost

\* CONSTRAINT no_self_redirect (a NULL target passes a CHECK)
NoSelfRedirectCheck(row) ==
  row.target_post_id # NoPost => row.source_post_id # row.target_post_id

\* CHECK (http_status_code IN (301, 302, 307, 308))
StatusCodeCheck(row) ==
  row.http_status_code # NoCode => row.http_status_code \in HttpStatusCodes

\* Whether the table accepts `row` (inserted, or as the new value of the row
\* with the same id) next to the rows `rs`.
StoreAccepts(rs, ps, row) ==
  /\ UniqueSource(rs, row)
  /\ TargetForeignKey(ps, row)
  /\ ValidRedirectCheck(row)
  /\ NoSelfRedirectCheck(row)
  /\ StatusCodeCheck(row)
  /\ row.redirect_type \in {"post", "url"}

(***************************************************************************)
(* lib/redirect-validator.ts                                               *)
(***************************************************************************)
Msg(text) == [text |-> text, depth |-> 0, chain |-> <<>>, source |-> NoPost]

NoFaults == [target |-> FALSE, hop |-> 0, unique |-> FALSE]

\* A walk that looks at the target alone and follows no redirect.
CircularWalkMutant(rs, sourcePostId, maxDepth, currentPostId, depth, visited, chain, failHop) ==
  [hasCircle |-> currentPostId = sourcePostId, chainDepth |-> 0, chain |-> <<>>]

RECURSIVE CircularWalkUncappedMutant(_, _, _, _, _, _, _, _)
CircularWalkUncappedMutant(rs, sourcePostId, maxDepth, currentPostId, depth, visited, chain, failHop) ==
  IF currentPostId = NoPost
    THEN [hasCircle |-> FALSE, chainDepth |-> depth, chain |-> chain]
  ELSE IF currentPostId \in visited \/ currentPostId = sourcePostId
    THEN [hasCircle |-> TRUE, chainDepth |-> depth, chain |-> chain]
  ELSE
    LET q == Single({r \in rs : r.source_post_id = currentPostId
                                /\ r.redirect_type = "post"},
                    failHop = depth + 1)
    IN IF q.rows = {} \/ TheRow(q).target_post_id = NoPost
         THEN [hasCircle |-> FALSE, chainDepth |-> depth,
               chain |-> Append(chain, currentPostId)]
         ELSE CircularWalkUncappedMutant(rs, sourcePostId, maxDepth,
                                         TheRow(q).target_post_id, depth + 1,
                                         visited \cup {currentPostId},
                                         Append(chain, currentPostId), failHop)

RECURSIVE CircularWalkChainLengthMutant(_, _, _, _, _, _, _, _)
CircularWalkChainLengthMutant(rs, sourcePostId, maxDepth, currentPostId, depth, visited, chain, failHop) ==
  IF ~(currentPostId # NoPost /\ depth < maxDepth)
    THEN [hasCircle |-> FALSE, chainDepth |-> Len(chain), chain |-> chain]
  ELSE IF currentPostId \in visited \/ currentPostId = sourcePostId
    THEN [hasCircle |-> TRUE, chainDepth |-> Len(chain), chain |-> chain]
  ELSE
    LET q == Single({r \in rs : r.source_post_id = currentPostId
                                /\ r.redirect_type = "post"},
                    failHop = depth + 1)
    IN IF q.rows = {} \/ TheRow(q).target_post_id = NoPost
         THEN [hasCircle |-> FALSE, chainDepth |-> Len(chain) + 1,
               chain |-> Append(chain, currentPostId)]
         ELSE CircularWalkChainLengthMutant(rs, sourcePostId, maxDepth,
                                            TheRow(q).target_post_id, depth + 1,
                                            visited \cup {currentPostId},
                                            Append(chain, currentPostId), failHop)

RECURSIVE CircularWalkOffByOneMutant(_, _, _, _, _, _, _, _)
CircularWalkOffByOneMutant(rs, sourcePostId, maxDepth, currentPostId, depth, visited, chain, failHop) ==
  IF ~(currentPostId # NoPost /\ depth <= maxDepth)
    THEN [hasCircle |-> FALSE, chainDepth |-> depth, chain |-> chain]
  ELSE IF currentPostId \in visited \/ currentPostId = sourcePostId
    THEN [hasCircle |-> TRUE, chainDepth |-> depth, chain |-> chain]
  ELSE
    LET q == Single({r \in rs : r.source_post_id = currentPostId
                                /\ r.redirect_type = "post"},
                    failHop = depth + 1)
    IN IF q.rows = {} \/ TheRow(q).target_post_id = NoPost
         THEN [hasCircle |-> FALSE, chainDepth |-> depth,
               chain |-> Append(chain, currentPostId)]
         ELSE CircularWalkOffByOneMutant(rs, sourcePostId, maxDepth,
                                         TheRow(q).target_post_id, depth + 1,
                                         visited \cup {currentPostId},
                                         Append(chain, currentPostId), failHop)

RECURSIVE CircularWalk(_, _, _, _, _, _, _, _)
\* The while loop of detectCircularRedirect, from the state it has reached.
CircularWalk(rs, sourcePostId, maxDepth, currentPostId, depth, visited, chain, failHop) ==
  IF ~(currentPostId # NoPost /\ depth < maxDepth)
    THEN [hasCircle |-> FALSE, chainDepth |-> depth, chain |-> chain]
  ELSE IF currentPostId \in visited
    THEN [hasCircle |-> TRUE, chainDepth |-> depth, chain |-> chain]
  ELSE IF currentPostId = sourcePostId
    THEN [hasCircle |-> TRUE, chainDepth |-> depth, chain |-> chain]
  ELSE
    LET q == Single({r \in rs : r.source_post_id = currentPostId
                                /\ r.redirect_type = "post"},
                    failHop = depth + 1)
    IN IF q.rows = {} \/ TheRow(q).target_post_id = NoPost
         THEN [hasCircle |-> FALSE, chainDepth |-> depth,
               chain |-> Append(chain, currentPostId)]
         ELSE CircularWalk(rs, sourcePostId, maxDepth, TheRow(q).target_post_id,
                           depth + 1, visited \cup {currentPostId},
                           Append(chain, currentPostId), failHop)

detectCircularRedirectMutant(rs, sourcePostId, targetPostId, maxDepth, failHop) ==
  CircularWalk(rs, NoPost, maxDepth, targetPostId, 0, {}, <<>>, failHop)

detectCircularRedirect(rs, sourcePostId, targetPostId, maxDepth, failHop) ==
  CircularWalk(rs, sourcePostId, maxDepth, targetPostId, 0, {}, <<>>, failHop)

\* The lookups a call of detectCircularRedirect issued: one after each post
\* pushed on chain (lines 35-43).
Lookups(circularCheck) == Len(circularCheck.chain)

InvalidMutant(errors, warnings) == [valid |-> TRUE, errors |-> errors, warnings |-> warnings]

\* result.valid = false; result.errors.push(...); return result
Invalid(errors, warnings) == [valid |-> FALSE, errors |-> errors, warnings |-> warnings]

ValidMutant(errors, warnings) ==
  [valid |-> warnings = <<>>, errors |-> errors, warnings |-> warnings]

\* return { valid: errors.length === 0, errors, warnings }
Valid(errors, warnings) ==
  [valid |-> Len(errors) = 0, errors |-> errors, warnings |-> warnings]

TargetPostMutant(ps, targetPostId, fails) ==
  [rows |-> {PostRow(targetPostId)}, error |-> FALSE]

\* Lines 77-81: the lookup of the target post.
TargetPost(ps, targetPostId, fails) == Single({p \in ps : p.id = targetPostId}, fails)

SourceCheckMutant(rs, sourcePostId, existingRedirectId, warnings, f) ==
  [valid |-> TRUE, errors |-> <<>>, warnings |-> warnings]

\* The uniqueness check at the end of validateRedirect.
SourceCheck(rs, sourcePostId, existingRedirectId, warnings, f) ==
  LET existingRedirect ==
        Single({r \in rs : /\ r.source_post_id = sourcePostId
                           /\ (existingRedirectId # NoId => r.id # existingRedirectId)},
               f.unique)
  IN IF existingRedirect.rows # {} /\ existingRedirectId = NoId
       THEN Invalid(<<Msg("A redirect already exists for this source post")>>, warnings)
       ELSE Valid(<<>>, warnings)

validateRedirectUniqueFirstMutant(rs, ps, sourcePostId, redirectType, targetPostId, targetUrl, existingRedirectId, f) ==
  IF ~SourceCheck(rs, sourcePostId, existingRedirectId, <<>>, f).valid
    THEN SourceCheck(rs, sourcePostId, existingRedirectId, <<>>, f)
  ELSE
  IF redirectType = "post" THEN
    IF targetPostId = NoPost
      THEN Invalid(<<Msg("Target post ID is required for post-to-post redirects")>>, <<>>)
    ELSE IF sourcePostId = targetPostId
      THEN Invalid(<<Msg("Cannot redirect a post to itself")>>, <<>>)
    ELSE
      LET targetPost == TargetPost(ps, targetPostId, f.target)
          w1 == IF targetPost.rows # {} /\ TheRow(targetPost).status = "draft"
                  THEN <<Msg("Target post is currently a draft and may not be publicly accessible")>>
                  ELSE <<>>
          circularCheck ==
            detectCircularRedirect(rs, sourcePostId, targetPostId, MaxDepth, f.hop)
          w2 == IF circularCheck.chainDepth > 0
                  THEN Append(w1, [text |-> "Redirect chain detected",
                                   depth |-> circularCheck.chainDepth,
                                   chain |-> circularCheck.chain,
                                   source |-> NoPost])
                  ELSE w1
      IN IF targetPost.rows = {}
           THEN Invalid(<<Msg("Target post does not exist")>>, <<>>)
         ELSE IF circularCheck.hasCircle
           THEN Invalid(<<[text |-> "Circular redirect detected",
                           depth |-> circularCheck.chainDepth,
                           chain |-> circularCheck.chain,
                           source |-> sourcePostId]>>, w1)
         ELSE SourceCheck(rs, sourcePostId, existingRedirectId, w2, f)
  ELSE IF redirectType = "url" THEN
    IF targetUrl = NoUrl
      THEN Invalid(<<Msg("Target URL is required for post-to-URL redirects")>>, <<>>)
    ELSE IF ~ParseUrl(targetUrl).ok
      THEN Invalid(<<Msg("Invalid URL format")>>, <<>>)
    ELSE IF ParseUrl(targetUrl).protocol \notin {"http:", "https:"}
      THEN Invalid(<<Msg("Only HTTP and HTTPS URLs are allowed")>>, <<>>)
    ELSE SourceCheck(rs, sourcePostId, existingRedirectId,
                     IF ParseUrl(targetUrl).protocol = "http:"
                       THEN <<Msg("Using HTTP instead of HTTPS may cause security warnings")>>
                       ELSE <<>>, f)
  ELSE SourceCheck(rs, sourcePostId, existingRedirectId, <<>>, f)

validateRedirect(rs, ps, sourcePostId, redirectType, targetPostId, targetUrl, existingRedirectId, f) ==
  IF redirectType = "post" THEN
    IF targetPostId = NoPost
      THEN Invalid(<<Msg("Target post ID is required for post-to-post redirects")>>, <<>>)
    ELSE IF sourcePostId = targetPostId
      THEN Invalid(<<Msg("Cannot redirect a post to itself")>>, <<>>)
    ELSE
      LET targetPost == TargetPost(ps, targetPostId, f.target)
          w1 == IF targetPost.rows # {} /\ TheRow(targetPost).status = "draft"
                  THEN <<Msg("Target post is currently a draft and may not be publicly accessible")>>
                  ELSE <<>>
          circularCheck ==
            detectCircularRedirect(rs, sourcePostId, targetPostId, MaxDepth, f.hop)
          w2 == IF circularCheck.chainDepth > 0
                  THEN Append(w1, [text |-> "Redirect chain detected",
                                   depth |-> circularCheck.chainDepth,
                                   chain |-> circularCheck.chain,
                                   source |-> NoPost])
                  ELSE w1
      IN IF targetPost.rows = {}
           THEN Invalid(<<Msg("Target post does not exist")>>, <<>>)
         ELSE IF circularCheck.hasCircle
           THEN Invalid(<<[text |-> "Circular redirect detected",
                           depth |-> circularCheck.chainDepth,
                           chain |-> circularCheck.chain,
                           source |-> sourcePostId]>>, w1)
         ELSE SourceCheck(rs, sourcePostId, existingRedirectId, w2, f)
  ELSE IF redirectType = "url" THEN
    IF targetUrl = NoUrl
      THEN Invalid(<<Msg("Target URL is required for post-to-URL redirects")>>, <<>>)
    ELSE IF ~ParseUrl(targetUrl).ok
      THEN Invalid(<<Msg("Invalid URL format")>>, <<>>)
    ELSE IF ParseUrl(targetUrl).protocol \notin {"http:", "https:"}
      THEN Invalid(<<Msg("Only HTTP and HTTPS URLs are allowed")>>, <<>>)
    ELSE SourceCheck(rs, sourcePostId, existingRedirectId,
                     IF ParseUrl(targetUrl).protocol = "http:"
                       THEN <<Msg("Using HTTP instead of HTTPS may cause security warnings")>>
                       ELSE <<>>, f)
  ELSE SourceCheck(rs, sourcePostId, existingRedirectId, <<>>, f)

(***************************************************************************)
(* lib/validation.ts: the first issue of a failed parse, "" when it passes. *)
(***************************************************************************)
redirectSchema(body) ==
  IF body.targetUrl # NoUrl /\ ~ParseUrl(body.targetUrl).ok
    THEN "Invalid target URL"
  ELSE IF body.httpStatusCode # NoCode /\ body.httpStatusCode \notin HttpStatusCodes
    THEN "HTTP status code must be 301, 302, 307, or 308"
  ELSE IF ~(\/ body.redirectType = "post" /\ body.targetPostId # NoPost /\ body.targetUrl = NoUrl
            \/ body.redirectType = "url" /\ body.targetUrl # NoUrl /\ body.targetPostId = NoPost)
    THEN "For post redirects, provide targetPostId only. For URL redirects, provide targetUrl only."
  ELSE ""

updateRedirectSchema(body) ==
  IF body.targetUrl # NoUrl /\ ~ParseUrl(body.targetUrl).ok
    THEN "Invalid target URL"
  ELSE IF body.httpStatusCode # NoCode /\ body.httpStatusCode \notin HttpStatusCodes
    THEN "HTTP status code must be 301, 302, 307, or 308"
  ELSE ""

(***************************************************************************)
(* Responses of the management routes.                                     *)
(***************************************************************************)
\* The body keeps the validator's messages without their chain listing.
Texts(msgs) == [i \in DOMAIN msgs |-> msgs[i].text]

Response(op, status, valid, errors, warnings) ==
  [op |-> op, status |-> status, valid |-> valid,
   errors |-> Texts(errors), warnings |-> Texts(warnings)]

NoResponse == Response("", 0, TRUE, <<>>, <<>>)

Failure(op, status, text) == Response(op, status, FALSE, <<Msg(text)>>, <<>>)

\* The row POST inserts; the store fills in the id.
InsertData(currentUserId, body, id) ==
  [id |-> id,
   source_post_id |-> body.sourcePostId,
   redirect_type |-> body.redirectType,
   target_post_id |-> IF body.redirectType = "post" THEN body.targetPostId ELSE NoPost,
   target_url |-> IF body.redirectType = "post" THEN NoUrl ELSE body.targetUrl,
   http_status_code |-> IF body.httpStatusCode = NoCode THEN DefaultStatusCode
                                                        ELSE body.httpStatusCode,
   created_by |-> currentUserId,
   notes |-> body.notes]

(***************************************************************************)
(* POST /api/settings/redirects, run without interruption: what it answers *)
(* and the table it leaves, from the tables it finds.                      *)
(***************************************************************************)
PostOutcome(rs, ps, seq, currentUserId, body) ==
  LET validationResult ==
        validateRedirect(rs, ps, body.sourcePostId, body.redirectType,
                         body.targetPostId, body.targetUrl, NoId, NoFaults)
      sourcePost == Single({p \in ps : p.id = body.sourcePostId}, FALSE)
      row == InsertData(currentUserId, body, NewId(body.sourcePostId, seq))
      fail(status, text) == [resp |-> Failure("POST", status, text), redirects |-> rs]
  IN
  IF currentUserId = NoUser THEN fail(401, "You must be logged in")
  ELSE IF redirectSchema(body) # "" THEN fail(400, redirectSchema(body))
  ELSE IF ~validationResult.valid
    THEN [resp |-> Response("POST", 400, FALSE, validationResult.errors, <<>>),
          redirects |-> rs]
  ELSE IF sourcePost.rows = {} THEN fail(404, "Source post not found")
  ELSE IF TheRow(sourcePost).author_id # currentUserId
    THEN fail(401, "You can only create redirects for your own posts")
  ELSE IF ~StoreAccepts(rs, ps, row) THEN fail(500, "Failed to create redirect")
  ELSE [resp |-> Response("POST", 201, TRUE, <<>>, validationResult.warnings),
        redirects |-> rs \cup {row}]

POST(currentUserId, body) ==
  LET out == PostOutcome(redirects, posts, idSeq, currentUserId, body)
  IN
  /\ out.resp.status = 201 => idSeq[body.sourcePostId] < MaxGen
  /\ resp' = out.resp
  /\ redirects' = out.redirects
  /\ idSeq' = IF out.resp.status = 201
                THEN [idSeq EXCEPT ![body.sourcePostId] = @ + 1]
                ELSE idSeq
  /\ UNCHANGED <<posts, reqs, resolved, read, earlier>>

(***************************************************************************)
(* POST /api/settings/redirects, one step per group of awaits, for         *)
(* requests that run concurrently.  reqs holds the requests that have      *)
(* passed validateRedirect and not yet answered.                           *)
(***************************************************************************)
Drop(i) == SubSeq(reqs, 1, i - 1) \o SubSeq(reqs, i + 1, Len(reqs))

\* Lines 90-113: authentication, the schema and validateRedirect.
PostValidate(currentUserId, body) ==
  LET validationResult ==
        validateRedirect(redirects, posts, body.sourcePostId, body.redirectType,
                         body.targetPostId, body.targetUrl, NoId, NoFaults)
      fail(status, text) == Failure("POST", status, text)
  IN
  /\ Len(reqs) < NumReqs
  /\ UNCHANGED <<posts, redirects, idSeq, resolved, read, earlier>>
  /\ IF currentUserId = NoUser THEN
       /\ resp' = fail(401, "You must be logged in")
       /\ UNCHANGED reqs
     ELSE IF redirectSchema(body) # "" THEN
       /\ resp' = fail(400, redirectSchema(body))
       /\ UNCHANGED reqs
     ELSE IF ~validationResult.valid THEN
       /\ resp' = Response("POST", 400, FALSE, validationResult.errors, <<>>)
       /\ UNCHANGED reqs
     ELSE
       /\ reqs' = Append(reqs, [pc |-> "source", currentUserId |-> currentUserId,
                                body |-> body, warnings |-> validationResult.warnings])
       /\ UNCHANGED resp

\* Lines 115-127: the source post lookup and the author check.
PostSource(i) ==
  LET req == reqs[i]
      sourcePost == Single({p \in posts : p.id = req.body.sourcePostId}, FALSE)
      fail(status, text) == Failure("POST", status, text)
  IN
  /\ req.pc = "source"
  /\ UNCHANGED <<posts, redirects, idSeq, resolved, read, earlier>>
  /\ IF sourcePost.rows = {} THEN
       /\ resp' = fail(404, "Source post not found")
       /\ reqs' = Drop(i)
     ELSE IF TheRow(sourcePost).author_id # req.currentUserId THEN
       /\ resp' = fail(401, "You can only create redirects for your own posts")
       /\ reqs' = Drop(i)
     ELSE
       /\ reqs' = [reqs EXCEPT ![i].pc = "insert"]
       /\ UNCHANGED resp

\* Lines 129-159: the insert and the answer.
PostInsert(i) ==
  LET req == reqs[i]
      row == InsertData(req.currentUserId, req.body, NewId(req.body.sourcePostId, idSeq))
  IN
  /\ req.pc = "insert"
  /\ UNCHANGED <<posts, resolved, read, earlier>>
  /\ reqs' = Drop(i)
  /\ IF ~StoreAccepts(redirects, posts, row) THEN
       /\ resp' = Failure("POST", 500, "Failed to create redirect")
       /\ UNCHANGED <<redirects, idSeq>>
     ELSE
       /\ idSeq[req.body.sourcePostId] < MaxGen
       /\ redirects' = redirects \cup {row}
       /\ idSeq' = [idSeq EXCEPT ![req.body.sourcePostId] = @ + 1]
       /\ resp' = Response("POST", 201, TRUE, <<>>, req.warnings)

(***************************************************************************)
(* PUT /api/settings/redirects/[id]                                        *)
(***************************************************************************)
OwnRedirectMutant(rs, redirectId, currentUserId) == {r \in rs : r.id = redirectId}

\* .from('post_redirects').eq('id', redirectId).eq('created_by', currentUserId)
OwnRedirect(rs, redirectId, currentUserId) ==
  {r \in rs : r.id = redirectId /\ r.created_by = currentUserId}

\* The clock readings new Date() can give.
Times == {1, 2}

updateDataMutant(existingRedirect, body, now) ==
  LET redirectType == body.redirectType
      cols == {"updated_at"}
                \cup (IF redirectType # NoType THEN {"redirect_type"} ELSE {})
                \cup (IF body.httpStatusCode # NoCode THEN {"http_status_code"} ELSE {})
                \cup (IF body.notes # NoNotes THEN {"notes"} ELSE {})
                \cup (IF body.targetPostId # NoPost THEN {"target_post_id"} ELSE {})
                \cup (IF body.targetUrl # NoUrl THEN {"target_url"} ELSE {})
      val(c) == CASE c = "updated_at" -> now
                  [] c = "redirect_type" -> redirectType
                  [] c = "http_status_code" -> body.httpStatusCode
                  [] c = "notes" -> body.notes
                  [] c = "target_post_id" -> body.targetPostId
                  [] c = "target_url" -> body.targetUrl
  IN [c \in cols |-> val(c)]

\* updateData: the columns the handler assigns and their values (a column
\* set to null carries the absent value).
updateData(existingRedirect, body, now) ==
  LET redirectType == body.redirectType
      asPost == redirectType = "post"
                  \/ (existingRedirect.redirect_type = "post" /\ redirectType = NoType)
      asUrl == ~asPost /\ (redirectType = "url"
                  \/ (existingRedirect.redirect_type = "url" /\ redirectType = NoType))
      cols == {"updated_at"}
                \cup (IF redirectType # NoType THEN {"redirect_type"} ELSE {})
                \cup (IF body.httpStatusCode # NoCode THEN {"http_status_code"} ELSE {})
                \cup (IF body.notes # NoNotes THEN {"notes"} ELSE {})
                \cup (IF asPost
                        THEN (IF body.targetPostId # NoPost THEN {"target_post_id"} ELSE {})
                               \cup {"target_url"}
                        ELSE IF asUrl
                          THEN (IF body.targetUrl # NoUrl THEN {"target_url"} ELSE {})
                                 \cup {"target_post_id"}
                          ELSE {})
      val(c) == CASE c = "updated_at" -> now
                  [] c = "redirect_type" -> redirectType
                  [] c = "http_status_code" -> body.httpStatusCode
                  [] c = "notes" -> body.notes
                  [] c = "target_post_id" -> IF asPost THEN body.targetPostId ELSE NoPost
                  [] c = "target_url" -> IF asPost THEN NoUrl ELSE body.targetUrl
  IN [c \in cols |-> val(c)]

\* The row after .update(updateData): the assigned columns take their new
\* values, every other column keeps its value.  The rows of the model carry
\* no timestamp columns, so the clock reading does not show in the row.
UpdatedRow(existingRedirect, body) ==
  LET data == updateData(existingRedirect, body, 1)
  IN [c \in DOMAIN existingRedirect |->
        IF c \in DOMAIN data THEN data[c] ELSE existingRedirect[c]]

PutOutcomeUnvalidatedMutant(rs, ps, currentUserId, redirectId, body) ==
  LET existingRedirect == Single(OwnRedirect(rs, redirectId, currentUserId), FALSE)
      existing == TheRow(existingRedirect)
      row == UpdatedRow(existing, body)
      fail(status, text) == [resp |-> Failure("PUT", status, text), redirects |-> rs]
  IN
  IF currentUserId = NoUser THEN fail(401, "You must be logged in")
  ELSE IF updateRedirectSchema(body) # "" THEN fail(400, updateRedirectSchema(body))
  ELSE IF existingRedirect.rows = {} THEN fail(404, "Redirect not found")
  ELSE IF ~StoreAccepts(rs, ps, row) THEN fail(500, "Failed to update redirect")
  ELSE [resp |-> Response("PUT", 200, TRUE, <<>>, <<>>),
        redirects |-> (rs \ {existing}) \cup {row}]

PutOutcomeEveryRowMutant(rs, ps, currentUserId, redirectId, body) ==
  LET existingRedirect == Single(OwnRedirect(rs, redirectId, currentUserId), FALSE)
      existing == TheRow(existingRedirect)
      validationResult ==
        validateRedirect(rs, ps, existing.source_post_id,
                         IF body.redirectType # NoType THEN body.redirectType
                                                       ELSE existing.redirect_type,
                         IF body.targetPostId # NoPost THEN body.targetPostId
                                                       ELSE existing.target_post_id,
                         IF body.targetUrl # NoUrl THEN body.targetUrl
                                                   ELSE existing.target_url,
                         redirectId, NoFaults)
      fail(status, text) == [resp |-> Failure("PUT", status, text), redirects |-> rs]
  IN
  IF currentUserId = NoUser THEN fail(401, "You must be logged in")
  ELSE IF updateRedirectSchema(body) # "" THEN fail(400, updateRedirectSchema(body))
  ELSE IF existingRedirect.rows = {} THEN fail(404, "Redirect not found")
  ELSE IF ~validationResult.valid
    THEN [resp |-> Response("PUT", 400, FALSE, validationResult.errors, <<>>),
          redirects |-> rs]
  ELSE [resp |-> Response("PUT", 200, TRUE, <<>>, validationResult.warnings),
        redirects |-> {UpdatedRow(r, body) : r \in rs}]

\* What PUT answers and the table it leaves, from the tables it finds.
PutOutcome(rs, ps, currentUserId, redirectId, body) ==
  LET existingRedirect == Single(OwnRedirect(rs, redirectId, currentUserId), FALSE)
      existing == TheRow(existingRedirect)
      newRedirectType ==
        IF body.redirectType # NoType THEN body.redirectType ELSE existing.redirect_type
      newTargetPostId ==
        IF body.targetPostId # NoPost THEN body.targetPostId ELSE existing.target_post_id
      newTargetUrl ==
        IF body.targetUrl # NoUrl THEN body.targetUrl ELSE existing.target_url
      validationResult ==
        validateRedirect(rs, ps, existing.source_post_id, newRedirectType,
                         newTargetPostId, newTargetUrl, redirectId, NoFaults)
      row == UpdatedRow(existing, body)
      fail(status, text) == [resp |-> Failure("PUT", status, text), redirects |-> rs]
  IN
  IF currentUserId = NoUser THEN fail(401, "You must be logged in")
  ELSE IF updateRedirectSchema(body) # "" THEN fail(400, updateRedirectSchema(body))
  ELSE IF existingRedirect.rows = {} THEN fail(404, "Redirect not found")
  ELSE IF ~validationResult.valid
    THEN [resp |-> Response("PUT", 400, FALSE, validationResult.errors, <<>>),
          redirects |-> rs]
  ELSE IF ~StoreAccepts(rs, ps, row) THEN fail(500, "Failed to update redirect")
  ELSE [resp |-> Response("PUT", 200, TRUE, <<>>, validationResult.warnings),
        redirects |-> (rs \ {existing}) \cup {row}]

PUT(currentUserId, redirectId, body) ==
  LET out == PutOutcome(redirects, posts, currentUserId, redirectId, body)
  IN
  /\ resp' = out.resp
  /\ redirects' = out.redirects
  /\ UNCHANGED <<posts, idSeq, reqs, resolved, read, earlier>>

(***************************************************************************)
(* DELETE /api/settings/redirects/[id]                                     *)
(***************************************************************************)
\* What DELETE answers and the table it leaves, from the table it finds.
DeleteOutcome(rs, currentUserId, redirectId) ==
  LET existingRedirect == Single(OwnRedirect(rs, redirectId, currentUserId), FALSE)
      fail(status, text) == [resp |-> Failure("DELETE", status, text), redirects |-> rs]
  IN
  IF currentUserId = NoUser THEN fail(401, "You must be logged in")
  ELSE IF existingRedirect.rows = {} THEN fail(404, "Redirect not found")
  ELSE [resp |-> Response("DELETE", 200, TRUE, <<>>, <<>>),
        redirects |-> rs \ OwnRedirect(rs, redirectId, currentUserId)]

DELETE(currentUserId, redirectId) ==
  LET out == DeleteOutcome(redirects, currentUserId, redirectId)
  IN
  /\ resp' = out.resp
  /\ redirects' = out.redirects
  /\ UNCHANGED <<posts, idSeq, reqs, resolved, read, earlier>>

(***************************************************************************)
(* GET /api/settings/redirects/validate                                    *)
(***************************************************************************)
VALIDATE(currentUserId, sourcePostId, redirectType, targetPostId, targetUrl, existingRedirectId) ==
  LET validationResult ==
        validateRedirect(redirects, posts, sourcePostId, redirectType, targetPostId,
                         targetUrl, existingRedirectId, NoFaults)
      fail(status, text) == Failure("VALIDATE", status, text)
  IN
  /\ UNCHANGED <<posts, redirects, idSeq, reqs, resolved, read, earlier>>
  /\ resp' =
       IF currentUserId = NoUser THEN fail(401, "You must be logged in")
       ELSE IF sourcePostId = NoPost \/ redirectType = NoType
         THEN fail(400, "sourcePostId and redirectType are required")
       ELSE IF redirectType \notin {"post", "url"}
         THEN fail(400, "redirectType must be \"post\" or \"url\"")
       ELSE Response("VALIDATE", 200, validationResult.valid, validationResult.errors,
                     validationResult.warnings)

(***************************************************************************)
(* DELETE FROM posts WHERE id = postId, under the foreign key of            *)
(* post_redirects.target_post_id (ON DELETE NO ACTION): the statement fails *)
(* while a redirect targets the post.  source_post_id has no foreign key.   *)
(***************************************************************************)
DeletePostRowMutant(postId) ==
  /\ \E p \in posts : p.id = postId
  /\ posts' = IF \E r \in redirects : r.target_post_id = postId
                THEN posts
                ELSE {p \in posts : p.id # postId}
  /\ redirects' = IF \E r \in redirects : r.target_post_id = postId
                    THEN redirects
                    ELSE {r \in redirects : r.source_post_id # postId}
  /\ UNCHANGED <<idSeq, resp, reqs, resolved, read, earlier>>

DeletePostRow(postId) ==
  /\ \E p \in posts : p.id = postId
  /\ posts' = IF \E r \in redirects : r.target_post_id = postId
                THEN posts
                ELSE {p \in posts : p.id # postId}
  /\ UNCHANGED <<redirects, idSeq, resp, reqs, resolved, read, earlier>>

(***************************************************************************)
(* resolveRedirect, one step per awaited lookup.  `outcome` is what the    *)
(* store does with the lookup: "ok" answers it, "error" answers no data    *)
(* and an error, "throw" makes the await throw.                            *)
(***************************************************************************)
Outcomes == {"ok", "error", "throw"}

Null == [type |-> "none", httpStatus |-> NoCode, target |-> <<>>, notes |-> NoNotes]

\* A call of resolveRedirect: where it is, what it has read (redirect,
\* targetPost, secondHop), what the tables held when it read (stored,
\* storedTarget), which of its lookups failed, and what it returned.
Idle ==
  [pc |-> "idle", postId |-> NoPost, redirect |-> {}, stored |-> {},
   targetPost |-> {}, storedTarget |-> {}, secondHop |-> {}, failed |-> {},
   result |-> Null]

Returned(call, result) == [call EXCEPT !.pc = "done", !.result = result]

Failed(call, lookup, outcome) ==
  IF outcome = "ok" THEN call ELSE [call EXCEPT !.failed = @ \cup {lookup}]

\* .from('post_redirects').select('*').eq('source_post_id', postId)
RedirectForMutant(rs, postId) == {r \in rs : r.target_post_id = postId}

RedirectFor(rs, postId) == {r \in rs : r.source_post_id = postId}

\* The answer for a url redirect.
UrlResult(redirect) ==
  [type |-> "url",
   httpStatus |-> redirect.http_status_code,
   target |-> [url |-> redirect.target_url],
   notes |-> redirect.notes]

GoneResultMutant(redirect) ==
  [type |-> "post",
   httpStatus |-> redirect.http_status_code,
   target |-> [postId |-> redirect.target_post_id,
               error |-> "Target post has been deleted"],
   notes |-> redirect.notes]

\* The answer for a post redirect whose target lookup found nothing.
GoneResult(redirect) ==
  [type |-> "post",
   httpStatus |-> 410,
   target |-> [postId |-> redirect.target_post_id,
               error |-> "Target post has been deleted"],
   notes |-> redirect.notes]

PostResultMutant(redirect, targetPost) ==
  [type |-> "post",
   httpStatus |-> DefaultStatusCode,
   target |-> [postId |-> targetPost.id, slug |-> targetPost.slug, title |-> targetPost.title],
   notes |-> redirect.notes]

\* The answer for a post redirect whose target exists.
PostResult(redirect, targetPost) ==
  [type |-> "post",
   httpStatus |-> redirect.http_status_code,
   target |-> [postId |-> targetPost.id, slug |-> targetPost.slug, title |-> targetPost.title],
   notes |-> redirect.notes]

\* Lines 6-25: the redirect lookup, and the answer for a url redirect.
ResolveLookup(postId, outcome) ==
  LET q == Single(RedirectFor(redirects, postId), outcome = "error")
      redirect == TheRow(q)
      call == Failed([Idle EXCEPT !.postId = postId,
                                  !.stored = {r \in redirects : r.source_post_id = postId},
                                  !.redirect = q.rows],
                     "redirect", outcome)
  IN
  /\ resolved.pc \in {"idle", "done"}
  /\ UNCHANGED <<posts, redirects, idSeq, resp, reqs, read>>
  /\ resolved' =
       IF outcome = "throw" THEN Returned([call EXCEPT !.redirect = {}], Null)
       ELSE IF q.error \/ q.rows = {} THEN Returned(call, Null)
       ELSE IF redirect.redirect_type = "url"
         THEN Returned(call, UrlResult(redirect))
       ELSE IF redirect.redirect_type = "post" /\ redirect.target_post_id # NoPost
         THEN [call EXCEPT !.pc = "target"]
       ELSE Returned(call, Null)

\* Lines 27-44: the target post lookup, and the answer when it finds nothing.
ResolveTarget(outcome) ==
  LET redirect == CHOOSE r \in resolved.redirect : TRUE
      q == Single({p \in posts : p.id = redirect.target_post_id}, outcome = "error")
      call == Failed([resolved EXCEPT
                        !.storedTarget = {p \in posts : p.id = redirect.target_post_id},
                        !.targetPost = q.rows],
                     "target", outcome)
  IN
  /\ resolved.pc = "target"
  /\ UNCHANGED <<posts, redirects, idSeq, resp, reqs, read, earlier>>
  /\ resolved' =
       IF outcome = "throw" THEN Returned([call EXCEPT !.targetPost = {}], Null)
       ELSE IF q.error \/ q.rows = {}
         THEN Returned(call, GoneResult(redirect))
       ELSE [call EXCEPT !.pc = "peek"]

PeekResultMutant(redirect, targetPost, secondHopRedirect) ==
  IF secondHopRedirect.rows # {} THEN Null ELSE PostResult(redirect, targetPost)

\* Lines 53-64: if (secondHopRedirect.data) {} and the answer for a post
\* redirect.
PeekResult(redirect, targetPost, secondHopRedirect) == PostResult(redirect, targetPost)

\* Lines 46-64: the second-hop lookup, .select('source_post_id') of the
\* target post's redirect, and the answer for a post redirect.
ResolvePeek(outcome) ==
  LET redirect == CHOOSE r \in resolved.redirect : TRUE
      targetPost == CHOOSE p \in resolved.targetPost : TRUE
      q == Single({[source_post_id |-> r.source_post_id] :
                     r \in RedirectFor(redirects, targetPost.id)},
                  outcome = "error")
      call == Failed([resolved EXCEPT !.secondHop = q.rows], "peek", outcome)
  IN
  /\ resolved.pc = "peek"
  /\ UNCHANGED <<posts, redirects, idSeq, resp, reqs, read, earlier>>
  /\ resolved' =
       IF outcome = "throw" THEN Returned([call EXCEPT !.secondHop = {}], Null)
       ELSE Returned(call, PeekResult(redirect, targetPost, q))

(***************************************************************************)
(* The other read operations: checkRedirectExists and getInboundRedirects  *)
(* of the resolver module, and validateTargetPostDeletion of the validator.*)
(***************************************************************************)
NoValidation == [valid |-> TRUE, errors |-> <<>>, warnings |-> <<>>]

\* What `read` holds: the operation, its argument, and its return value in
\* the field of its type.
NoRead ==
  [op |-> "", postId |-> NoPost, exists |-> FALSE, sources |-> {},
   validation |-> NoValidation, mapped |-> {}]

\* return !error && !!data, and false when the await throws.
checkRedirectExists(rs, postId, outcome) ==
  LET q == Single(RedirectFor(rs, postId), outcome = "error")
  IN IF outcome = "throw" THEN FALSE ELSE ~q.error /\ q.rows # {}

CheckRedirectExistsMutant(postId, outcome) ==
  /\ read' = [NoRead EXCEPT !.op = "checkRedirectExists", !.postId = postId,
                            !.exists = checkRedirectExists(redirects, postId, outcome)]
  /\ redirects' = redirects \ RedirectFor(redirects, postId)
  /\ UNCHANGED <<posts, idSeq, resp, reqs, resolved, earlier>>

CheckRedirectExists(postId, outcome) ==
  /\ read' = [NoRead EXCEPT !.op = "checkRedirectExists", !.postId = postId,
                            !.exists = checkRedirectExists(redirects, postId, outcome)]
  /\ UNCHANGED <<posts, redirects, idSeq, resp, reqs, resolved, earlier>>

\* .select('source_post_id').eq('target_post_id', id).eq('redirect_type', 'post')
InboundRows(rs, targetPostId) ==
  {r \in rs : r.target_post_id = targetPostId /\ r.redirect_type = "post"}

\* The source ids of the rows (the query asks for no order, and a source has
\* one row, so the array is taken as a set); nothing when the lookup fails.
getInboundRedirects(rs, targetPostId, outcome) ==
  IF outcome # "ok" THEN {}
  ELSE {r.source_post_id : r \in InboundRows(rs, targetPostId)}

GetInboundRedirects(targetPostId, outcome) ==
  /\ read' = [NoRead EXCEPT !.op = "getInboundRedirects", !.postId = targetPostId,
                            !.sources = getInboundRedirects(redirects, targetPostId, outcome)]
  /\ UNCHANGED <<posts, redirects, idSeq, resp, reqs, resolved, earlier>>

\* An error or warning of validateTargetPostDeletion; `count` is the number
\* the text carries.
GuardMsg(text, count) == [text |-> text, count |-> count]

DeletionRowsMutant(rs, ps, postId) ==
  {r \in rs : r.source_post_id = postId /\ r.redirect_type = "post"}

\* Lines 154-162: the rows with this target, of type post, inner-joined to
\* posts through the table's foreign key to posts (target_post_id).
DeletionRows(rs, ps, postId) ==
  {r \in InboundRows(rs, postId) : \E p \in ps : p.id = r.target_post_id}

validateTargetPostDeletionMutant(rs, ps, postId, fails) ==
  LET inboundRedirects == DeletionRows(rs, ps, postId)
      blocked == <<GuardMsg("Cannot delete this post. redirect(s) point to it. Please remove or update these redirects first.",
                            Cardinality(inboundRedirects))>>
  IN IF fails \/ Cardinality(inboundRedirects) > 0
       THEN [valid |-> FALSE, errors |-> blocked, warnings |-> <<>>]
       ELSE [valid |-> TRUE, errors |-> <<>>, warnings |-> <<>>]

validateTargetPostDeletion(rs, ps, postId, fails) ==
  LET inboundRedirects == DeletionRows(rs, ps, postId)
  IN IF fails
       THEN [valid |-> TRUE, errors |-> <<>>,
             warnings |-> <<GuardMsg("Could not check for inbound redirects", 0)>>]
     ELSE IF Cardinality(inboundRedirects) > 0
       THEN [valid |-> FALSE,
             errors |-> <<GuardMsg("Cannot delete this post. redirect(s) point to it. Please remove or update these redirects first.",
                                   Cardinality(inboundRedirects))>>,
             warnings |-> <<>>]
     ELSE [valid |-> TRUE, errors |-> <<>>, warnings |-> <<>>]

ValidateTargetPostDeletion(postId, fails) ==
  /\ read' = [NoRead EXCEPT !.op = "validateTargetPostDeletion", !.postId = postId,
                            !.validation =
                               validateTargetPostDeletion(redirects, posts, postId, fails)]
  /\ UNCHANGED <<posts, redirects, idSeq, resp, reqs, resolved, earlier>>

(***************************************************************************)
(* lib/post-mapper.ts.  Of a mapped post the model keeps the id and the    *)
(* redirect field, with the redirect rows the store held for the post when *)
(* the field was computed and the lookups that failed in computing it.     *)
(***************************************************************************)
MappedPost(post, redirect, stored, failed) ==
  [id |-> post.id, redirect |-> redirect, stored |-> stored, failed |-> failed]

\* mapPostFromDB(post, includeRedirect): with includeRedirect the step is the
\* return after the awaited resolveRedirect(post.id) has returned; without it
\* the redirect field is null and resolveRedirect is not called.
mapPostFromDB(post, includeRedirect) ==
  IF includeRedirect
    THEN MappedPost(post, resolved.result, resolved.stored, resolved.failed)
    ELSE MappedPost(post, Null, RedirectFor(redirects, post.id), {})

MapPostFromDB(post, includeRedirect) ==
  /\ includeRedirect => resolved.pc = "done" /\ resolved.postId = post.id
  /\ read' = [NoRead EXCEPT !.op = "mapPostFromDB", !.postId = post.id,
                            !.mapped = {mapPostFromDB(post, includeRedirect)}]
  /\ UNCHANGED <<posts, redirects, idSeq, resp, reqs, resolved, earlier>>

\* mapPostsFromDB(posts, includeRedirect): mapPostFromDB for each post.  The
\* model follows one resolveRedirect call at a time, so with includeRedirect
\* the list has one post.
MapPostsFromDB(ps, includeRedirect) ==
  /\ includeRedirect =>
       /\ Cardinality(ps) = 1
       /\ resolved.pc = "done"
       /\ \A post \in ps : resolved.postId = post.id
  /\ read' = [NoRead EXCEPT !.op = "mapPostsFromDB",
                            !.mapped = {mapPostFromDB(post, includeRedirect) : post \in ps}]
  /\ UNCHANGED <<posts, redirects, idSeq, resp, reqs, resolved, earlier>>

\* A caller that calls resolveRedirect twice for one post keeps what the
\* first call returned.  `store` is the store when the first call began: the
\* two tables and the ids issued so far (an id is never issued twice, so a
\* write between two moments leaves the store different at the second).
NoEarlier == [n |-> 0, store |-> <<{}, {}, <<>>>>, first |-> Idle]

ResolveFirst(postId, outcome) ==
  /\ ResolveLookup(postId, outcome)
  /\ earlier' = [n |-> 1, store |-> <<redirects, posts, idSeq>>, first |-> Idle]

\* The second call, made when the first has returned and no redirect has
\* been written since it began.
ResolveAgain(outcome) ==
  /\ resolved.pc = "done"
  /\ earlier.n = 1
  /\ earlier.store[1] = redirects /\ earlier.store[3] = idSeq
  /\ ResolveLookup(resolved.postId, outcome)
  /\ earlier' = [earlier EXCEPT !.n = 2, !.first = resolved]

(***************************************************************************)
(* Spec: the management requests, one at a time, on a small site.  Post    *)
(* NumPosts + 1 is an id with no post row.                                 *)
(***************************************************************************)
PostIds == 1..(NumPosts + 1)

\* The ids the store can issue.  Post 1 is the post whose redirect is removed
\* and created again, so the requests name every id of post 1 and the first
\* id of each other post.
IssuedIds(source) == {source * (MaxGen + 1) + g : g \in 1..MaxGen}
RedirectIds ==
  IssuedIds(1) \cup {source * (MaxGen + 1) + 1 : source \in 2..NumPosts}

\* Status code and notes of a request: left out, or given.
DefaultPayload == [httpStatusCode |-> NoCode, notes |-> NoNotes]
Payloads == {DefaultPayload, [httpStatusCode |-> 302, notes |-> "moved"]}

Body(source, type, targetPost, targetUrl, payload) ==
  [sourcePostId |-> source, redirectType |-> type, targetPostId |-> targetPost,
   targetUrl |-> targetUrl, httpStatusCode |-> payload.httpStatusCode,
   notes |-> payload.notes]

Https == "https://example.com/x"
Http == "http://example.com"

\* Requests about post 1 carry every kind of target and payload; requests
\* about the other posts carry post targets and the https and malformed URLs.
CreateBodies ==
  {Body(s, "post", t, NoUrl, DefaultPayload) : s \in PostIds, t \in PostIds}
    \cup {Body(s, "url", NoPost, u, DefaultPayload) : s \in PostIds, u \in Urls \ {Http}}
    \cup {Body(1, "url", NoPost, u, pl) : u \in {Https, Http}, pl \in Payloads}
    \cup {Body(1, "post", NoPost, NoUrl, DefaultPayload),
          Body(1, "post", 2, Https, DefaultPayload),
          Body(1, "url", NoPost, NoUrl, DefaultPayload),
          Body(1, "post", 2, NoUrl, [httpStatusCode |-> 200, notes |-> NoNotes])}

UpdateBodies ==
  {Body(NoPost, ty, t, NoUrl, DefaultPayload) :
     ty \in {NoType, "post"}, t \in PostIds \cup {NoPost}}
    \cup {Body(NoPost, ty, NoPost, u, DefaultPayload) :
            ty \in {NoType, "url"}, u \in Urls \ {Http}}
    \cup {Body(NoPost, ty, 2, Https, DefaultPayload) : ty \in {NoType, "post", "url"}}

FirstUpdateBodies ==
  {Body(NoPost, NoType, NoPost, NoUrl, [httpStatusCode |-> c, notes |-> "moved"]) :
     c \in {302, 200}}
    \cup {Body(NoPost, "url", NoPost, Http, DefaultPayload)}

\* The source post a redirect id was issued for, and the author of that post.
SourceOf(id) == id \div (MaxGen + 1)
OwnerOf(id) == PostRow(SourceOf(id)).author_id
FirstId == NewId(1, [p \in PostIds |-> 0])
ValidateIds == {NoId} \cup {NewId(s, [p \in PostIds |-> 0]) : s \in 1..NumPosts}

Init ==
  /\ posts = {PostRow(p) : p \in 1..NumPosts}
  /\ redirects = {}
  /\ idSeq = [p \in PostIds |-> 0]
  /\ resp = NoResponse
  /\ reqs = <<>>
  /\ resolved = Idle
  /\ read = NoRead
  /\ earlier = NoEarlier

Create ==
  \/ \E u \in Users, body \in CreateBodies : POST(u, body)
  \/ POST(NoUser, Body(1, "post", 2, NoUrl, DefaultPayload))

Update ==
  \/ \E id \in RedirectIds, body \in UpdateBodies : PUT(OwnerOf(id), id, body)
  \/ \E body \in FirstUpdateBodies : PUT(OwnerOf(FirstId), FirstId, body)
  \/ \E u \in Users \cup {NoUser}, id \in RedirectIds :
       PUT(u, id, Body(NoPost, "url", NoPost, Https, DefaultPayload))

Delete ==
  \/ \E u \in Users \cup {NoUser}, id \in IssuedIds(1) : DELETE(u, id)
  \/ \E id \in RedirectIds \ IssuedIds(1) : DELETE("u1", id)

Validate ==
  \/ \E s \in PostIds, id \in ValidateIds :
       \/ \E t \in PostIds \cup {NoPost} : VALIDATE("u1", s, "post", t, NoUrl, id)
       \/ \E url \in Urls \cup {NoUrl} : VALIDATE("u1", s, "url", NoPost, url, id)
  \/ \E u \in {NoUser, "u1"}, s \in {NoPost, 1}, ty \in {NoType, "post", "page"} :
       VALIDATE(u, s, ty, 2, NoUrl, NoId)

Next == Create \/ Update \/ Delete \/ Validate

Spec == Init /\ [][Next]_vars

(***************************************************************************)
(* SpecResolve: readers resolving redirects while redirects are created    *)
(* and removed and posts are deleted.                                      *)
(***************************************************************************)
ResolveBodies ==
  {Body(s, "post", t, NoUrl, DefaultPayload) : s \in 1..NumPosts, t \in 1..NumPosts}
    \cup {Body(1, "url", NoPost, Https, pl) : pl \in Payloads}
    \cup {Body(1, "post", 2, NoUrl, [httpStatusCode |-> 302, notes |-> "moved"])}

Seed == \E body \in ResolveBodies : POST(PostRow(body.sourcePostId).author_id, body)

Remove == \E id \in IssuedIds(1) : DELETE(OwnerOf(id), id)

DeletePost == \E p \in 1..NumPosts : DeletePostRow(p)

Lookup ==
  \E p \in PostIds, outcome \in Outcomes : ResolveLookup(p, outcome) /\ UNCHANGED earlier

Target == \E outcome \in Outcomes : ResolveTarget(outcome)

Peek == \E outcome \in Outcomes : ResolvePeek(outcome)

NextResolve == Seed \/ Remove \/ DeletePost \/ Lookup \/ Target \/ Peek

SpecResolve == Init /\ [][NextResolve]_vars

(***************************************************************************)
(* SpecRace: create requests whose steps interleave, and removals.         *)
(***************************************************************************)
RaceBodies ==
  {Body(1, "post", 2, NoUrl, DefaultPayload),
   Body(1, "url", NoPost, Https, DefaultPayload),
   Body(2, "post", 1, NoUrl, DefaultPayload)}

Arrive == \E body \in RaceBodies : PostValidate(PostRow(body.sourcePostId).author_id, body)

CheckSource == \E i \in 1..NumReqs : i <= Len(reqs) /\ PostSource(i)

Insert == \E i \in 1..NumReqs : i <= Len(reqs) /\ PostInsert(i)

NextRace == Arrive \/ CheckSource \/ Insert \/ Remove

SpecRace == Init /\ [][NextRace]_vars

(***************************************************************************)
(* SpecRead: the read operations, called while redirects are created and   *)
(* removed and posts are deleted; a caller resolves a post twice.          *)
(***************************************************************************)
ReadBodies ==
  {Body(1, "post", 2, NoUrl, DefaultPayload),
   Body(1, "url", NoPost, Https, DefaultPayload),
   Body(2, "post", 1, NoUrl, DefaultPayload)}

\* The ids the read operations are called with: a post that can have a
\* redirect, a post that can be a target, and an id with no post row.
ReadIds == {1, 2, NumPosts + 1}

ReadSeed == \E body \in ReadBodies : POST(PostRow(body.sourcePostId).author_id, body)

First == \E p \in ReadIds, outcome \in Outcomes : ResolveFirst(p, outcome)

Again == \E outcome \in Outcomes : ResolveAgain(outcome)

Exists == \E outcome \in Outcomes : CheckRedirectExists(1, outcome)

Inbound == \E outcome \in Outcomes : GetInboundRedirects(2, outcome)

CanDelete == \E fails \in BOOLEAN : ValidateTargetPostDeletion(2, fails)

Proposal == VALIDATE("u1", 1, "post", 2, NoUrl, NoId)

NextRead ==
  \/ ReadSeed \/ Remove
  \/ First \/ Again \/ Target \/ Peek
  \/ Exists \/ Inbound \/ CanDelete \/ Proposal

SpecRead == Init /\ [][NextRead]_vars

(***************************************************************************)
(* SpecTombstone: a caller resolves a post twice while redirects are       *)
(* created and removed and the rows of posts 1 and 2 are deleted.          *)
(***************************************************************************)
DeleteRow == \E p \in {1, 2} : DeletePostRow(p)

NextTombstone == ReadSeed \/ Remove \/ DeleteRow \/ First \/ Again \/ Target \/ Peek

SpecTombstone == Init /\ [][NextTombstone]_vars

(***************************************************************************)
(* SpecGuard: the deletion guard, called while redirects to post 2 are     *)
(* created, repointed and removed.  Posts 1 and 3 have one author.         *)
(***************************************************************************)
GuardIds == 1..GuardPosts

InitGuard ==
  /\ posts = {PostRow(p) : p \in GuardIds}
  /\ redirects = {}
  /\ idSeq = [p \in GuardIds |-> 0]
  /\ resp = NoResponse
  /\ reqs = <<>>
  /\ resolved = Idle
  /\ read = NoRead
  /\ earlier = NoEarlier

GuardCreate ==
  \E source \in {1, 3} :
    \/ POST(PostRow(source).author_id, Body(source, "post", 2, NoUrl, DefaultPayload))
    \/ POST(PostRow(source).author_id, Body(source, "url", NoPost, Https, DefaultPayload))

\* Updates that repoint a redirect: to post 2, to the other post, to a URL.
GuardRepoint ==
  \E source \in {1, 3} :
    \/ \E target \in {2, 4 - source} :
         PUT(PostRow(source).author_id, source * (MaxGen + 1) + 1,
             Body(NoPost, "post", target, NoUrl, DefaultPayload))
    \/ PUT(PostRow(source).author_id, source * (MaxGen + 1) + 1,
           Body(NoPost, "url", NoPost, Https, DefaultPayload))

GuardCheck ==
  \E p \in {2, 3, GuardPosts + 1}, fails \in BOOLEAN : ValidateTargetPostDeletion(p, fails)

NextGuard == GuardCreate \/ GuardRepoint \/ Remove \/ GuardCheck

SpecGuard == InitGuard /\ [][NextGuard]_vars

(***************************************************************************)
(* SpecMap: post reads through the mapper while redirects are created and  *)
(* removed.  `includeRedirect` left out is its default: true for           *)
(* mapPostFromDB, false for mapPostsFromDB.                                *)
(***************************************************************************)
MapPost == \E post \in posts, includeRedirect \in BOOLEAN : MapPostFromDB(post, includeRedirect)

MapPosts ==
  \E ps \in SUBSET posts, includeRedirect \in BOOLEAN : MapPostsFromDB(ps, includeRedirect)

NextMap == ReadSeed \/ Remove \/ Lookup \/ Target \/ Peek \/ MapPost \/ MapPosts

SpecMap == Init /\ [][NextMap]_vars

(***************************************************************************)
(* SpecValidate: proposals put to the validate route while redirects are   *)
(* created and removed.                                                    *)
(***************************************************************************)
Propose ==
  \E s \in PostIds, id \in {NoId, FirstId} :
    \/ \E t \in PostIds \cup {NoPost} : VALIDATE("u1", s, "post", t, NoUrl, id)
    \/ \E url \in Urls \cup {NoUrl} : VALIDATE("u1", s, "url", NoPost, url, id)

NextValidate == ReadSeed \/ Remove \/ Propose

SpecValidate == Init /\ [][NextValidate]_vars

(***************************************************************************)
(* SpecOwner: each account sends the management requests for every post    *)
(* and redirect, its own or not, and readers resolve.                      *)
(***************************************************************************)
OwnerUpdateBodies ==
  {Body(NoPost, "url", NoPost, Https, DefaultPayload),
   Body(NoPost, NoType, NoPost, NoUrl, [httpStatusCode |-> 302, notes |-> "moved"]),
   Body(NoPost, NoType, NoPost, NoUrl, [httpStatusCode |-> 200, notes |-> NoNotes])}

OwnerCreate == \E u \in Users, body \in RaceBodies : POST(u, body)

OwnerUpdate ==
  \E u \in Users, source \in {1, 2}, body \in OwnerUpdateBodies :
    PUT(u, source * (MaxGen + 1) + 1, body)

OwnerDelete == \E u \in Users, id \in IssuedIds(1) : DELETE(u, id)

NextOwner == OwnerCreate \/ OwnerUpdate \/ OwnerDelete \/ Lookup \/ Target \/ Peek

SpecOwner == Init /\ [][NextOwner]_vars

(***************************************************************************)
(* SpecPeek: resolveRedirect on SpecGuard's site of three posts, where the *)
(* target of post 1's redirect can itself have a post or a url redirect.   *)
(***************************************************************************)
PeekBodies ==
  {Body(1, "post", 2, NoUrl, [httpStatusCode |-> 302, notes |-> "moved"]),
   Body(2, "post", 3, NoUrl, DefaultPayload),
   Body(2, "url", NoPost, Https, DefaultPayload),
   Body(3, "url", NoPost, Https, DefaultPayload)}

PeekSeed == \E body \in PeekBodies : POST(PostRow(body.sourcePostId).author_id, body)

\* The redirect of post 2 switched between post 3 and the URL.
PeekRepoint ==
  \/ PUT(PostRow(2).author_id, 2 * (MaxGen + 1) + 1,
         Body(NoPost, "post", 3, NoUrl, DefaultPayload))
  \/ PUT(PostRow(2).author_id, 2 * (MaxGen + 1) + 1,
         Body(NoPost, "url", NoPost, Https, DefaultPayload))

PeekLookup ==
  \E p \in {1, 2}, outcome \in Outcomes : ResolveLookup(p, outcome) /\ UNCHANGED earlier

NextPeek == PeekSeed \/ PeekRepoint \/ Remove \/ PeekLookup \/ Target \/ Peek

SpecPeek == InitGuard /\ [][NextPeek]_vars

(***************************************************************************)
(* SpecUpdate: the redirects of SpecRead's site rewritten by their owners  *)
(* with every update body: new targets, switched types, both target        *)
(* fields at once, status codes and notes.                                  *)
(***************************************************************************)
RewriteBodies == UpdateBodies \cup FirstUpdateBodies

Rewrite ==
  \E id \in RedirectIds, body \in RewriteBodies : PUT(OwnerOf(id), id, body)

NextUpdate == ReadSeed \/ Remove \/ Rewrite

SpecUpdate == Init /\ [][NextUpdate]_vars

(***************************************************************************)
(* SpecChain: the management requests on a site of ChainPosts posts, where *)
(* each post is redirected to the next one (the last to the first) or, for *)
(* post MaxDepth, back to post 1.                                          *)
(***************************************************************************)
ChainIds == 1..ChainPosts

ChainTargets(source) ==
  {(source % ChainPosts) + 1} \cup (IF source = MaxDepth THEN {1} ELSE {})

InitChain ==
  /\ posts = {PostRow(p) : p \in ChainIds}
  /\ redirects = {}
  /\ idSeq = [p \in ChainIds |-> 0]
  /\ resp = NoResponse
  /\ reqs = <<>>
  /\ resolved = Idle
  /\ read = NoRead
  /\ earlier = NoEarlier

ChainCreate ==
  \E source \in ChainIds : \E target \in ChainTargets(source) :
    POST(PostRow(source).author_id, Body(source, "post", target, NoUrl, DefaultPayload))

\* Updates retarget the post that has two targets, and the last post.
ChainUpdate ==
  \E source \in {MaxDepth, ChainPosts} : \E target \in ChainTargets(source) :
    PUT(PostRow(source).author_id, source * (MaxGen + 1) + 1,
        Body(NoPost, NoType, target, NoUrl, DefaultPayload))

NextChain == ChainCreate \/ ChainUpdate \/ Remove

SpecChain == InitChain /\ [][NextChain]_vars

(***************************************************************************)
(* SpecWalk: the site of SpecChain after the posts 2 .. ChainPosts - 2     *)
(* were each redirected to the next post.  The requests give post 1 a post *)
(* or a url redirect, lengthen the chain at its end, close it into a       *)
(* cycle, and ask the validation route about proposals from its ends.      *)
(***************************************************************************)
RECURSIVE ChainBuilt(_)
\* The table after POST has redirected each of the posts 2 .. p to the next.
ChainBuilt(p) ==
  IF p < 2 THEN {}
  ELSE PostOutcome(ChainBuilt(p - 1), {PostRow(q) : q \in ChainIds},
                   [q \in ChainIds |-> 0], PostRow(p).author_id,
                   Body(p, "post", p + 1, NoUrl, DefaultPayload)).redirects

InitWalk ==
  /\ posts = {PostRow(p) : p \in ChainIds}
  /\ redirects = ChainBuilt(ChainPosts - 2)
  /\ idSeq = [p \in ChainIds |-> IF p \in 2..(ChainPosts - 2) THEN 1 ELSE 0]
  /\ resp = NoResponse
  /\ reqs = <<>>
  /\ resolved = Idle
  /\ read = NoRead
  /\ earlier = NoEarlier

WalkEnds == {1, ChainPosts - 1, ChainPosts}

WalkCreate ==
  \/ \E source \in WalkEnds : \E target \in {(source % ChainPosts) + 1, 2} \ {source} :
       POST(PostRow(source).author_id,
            Body(source, "post", target, NoUrl, DefaultPayload))
  \/ POST(PostRow(1).author_id, Body(1, "url", NoPost, Https, DefaultPayload))

WalkUpdate ==
  \E target \in {1, 2} :
    PUT(PostRow(ChainPosts).author_id, ChainPosts * (MaxGen + 1) + 1,
        Body(NoPost, NoType, target, NoUrl, DefaultPayload))

\* A proposal for a new redirect, or for the redirect a post already has.
Walk ==
  \E s \in WalkEnds, t \in {1, 2, ChainPosts} : \E id \in {NoId, s * (MaxGen + 1) + 1} :
    VALIDATE(PostRow(s).author_id, s, "post", t, NoUrl, id)

NextWalk == WalkCreate \/ WalkUpdate \/ Remove \/ Walk

SpecWalk == InitWalk /\ [][NextWalk]_vars

(***************************************************************************)
(* SpecLoop: create requests on SpecWalk's site whose validation and       *)
(* insert interleave, so that the store can come to hold a chain as long   *)
(* as the walk's cap and a cycle shorter than it.                           *)
(***************************************************************************)
LoopBodies ==
  {Body(1, "post", 3, NoUrl, DefaultPayload),
   Body(ChainPosts - 1, "post", 1, NoUrl, DefaultPayload),
   Body(ChainPosts - 1, "post", ChainPosts, NoUrl, DefaultPayload),
   Body(ChainPosts, "post", 1, NoUrl, DefaultPayload)}

LoopArrive ==
  \E body \in LoopBodies : PostValidate(PostRow(body.sourcePostId).author_id, body)

LoopWalk ==
  \E t \in {1, 2} :
    VALIDATE(PostRow(ChainPosts).author_id, ChainPosts, "post", t, NoUrl, NoId)

NextLoop == LoopArrive \/ CheckSource \/ Insert \/ LoopWalk

SpecLoop == InitWalk /\ [][NextLoop]_vars

(***************************************************************************)
(* Properties.                                                             *)
(***************************************************************************)
ExistsText == "A redirect already exists for this source post"
CircularText == "Circular redirect detected"
SelfText == "Cannot redirect a post to itself"

\* The validator's result is a rejection that carries the error `text`.
Rejected(result, text) ==
  ~result.valid /\ \E i \in DOMAIN result.errors : result.errors[i].text = text

\* The lookup failures a call of validateRedirect can meet.
Faults == [target : BOOLEAN, hop : 0..1, unique : BOOLEAN]

\* The graph of post redirects: the targets of p, and the posts met by
\* following the redirects from p for at most n hops.
PostTargets(rs, p) ==
  {r.target_post_id : r \in {x \in rs : x.source_post_id = p /\ x.redirect_type = "post"}}

RECURSIVE Trail(_, _, _)
Trail(rs, p, n) ==
  IF n = 0 \/ PostTargets(rs, p) = {}
    THEN <<>>
    ELSE LET t == CHOOSE x \in PostTargets(rs, p) : TRUE
         IN <<t>> \o Trail(rs, t, n - 1)

\* p lies on a cycle of at most n posts.
OnCycle(rs, p, n) ==
  LET trail == Trail(rs, p, n) IN \E i \in DOMAIN trail : trail[i] = p

Sources(rs) == {r.source_post_id : r \in rs}

C3_NoSelfRedirect ==
  /\ \A A \in PostIds, id \in ValidateIds, f \in Faults :
       ~validateRedirect(redirects, posts, A, "post", A, NoUrl, id, f).valid
  /\ \A r \in redirects :
       r.redirect_type = "post" => r.source_post_id # r.target_post_id

\* C3's case: a request to redirect a post to itself was refused while other
\* redirects are stored.
C3_SelfRedirectRefused ==
  resp.status = 400 /\ resp.errors = <<SelfText>> /\ redirects # {}

\* C4: a create for a source that has a redirect leaves the store unchanged
\* and does not succeed, and when nothing else is wrong with it it is refused
\* with 'A redirect already exists for this source post'; an update of a
\* stored redirect by its creator is never refused with that error.
C4_SecondCreateRefused ==
  /\ \A body \in CreateBodies, u \in Users :
       RedirectFor(redirects, body.sourcePostId) # {} =>
         LET out == PostOutcome(redirects, posts, idSeq, u, body)
         IN /\ out.redirects = redirects
            /\ out.resp.status # 201
            /\ ( /\ redirectSchema(body) = ""
                 /\ validateRedirect(
                      redirects \ RedirectFor(redirects, body.sourcePostId),
                      posts, body.sourcePostId, body.redirectType,
                      body.targetPostId, body.targetUrl, NoId, NoFaults).valid )
                 => (out.resp.status = 400 /\ out.resp.errors = <<ExistsText>>)
  /\ \A r \in redirects, body \in UpdateBodies \cup FirstUpdateBodies :
       LET out == PutOutcome(redirects, posts, r.created_by, r.id, body)
       IN \A i \in DOMAIN out.resp.errors : out.resp.errors[i] # ExistsText

\* C4's case: a second create for a source was refused with the uniqueness
\* error.
C4_SecondCreateWasRefused ==
  /\ resp.op = "POST" /\ resp.status = 400 /\ resp.errors = <<ExistsText>>
  /\ redirects # {}

\* C5: also when create requests interleave, the store holds at most one
\* redirect per source post.
C5_OneRedirectPerSource ==
  \A r1, r2 \in redirects : r1.source_post_id = r2.source_post_id => r1 = r2

\* C5's case: two creates for one source both passed validateRedirect, one
\* inserted its row and the store refused the insert of the other.
C5_SecondInsertRefused ==
  /\ resp = Failure("POST", 500, "Failed to create redirect")
  /\ redirects # {}

\* C6 as stated: validateRedirect rejects with the uniqueness error whenever
\* the source has a redirect whose id differs from the id passed in.
C6_RejectsOtherId ==
  \A r \in redirects, id \in ValidateIds :
    id # r.id =>
      Rejected(validateRedirect(redirects, posts, r.source_post_id, "url", NoPost,
                                Https, id, NoFaults), ExistsText)

\* C7: a call of resolveRedirect(P) that found no redirect row with source P
\* in the store returns null, whatever the lookup's outcome.
C7_NoRedirectResolvesToNull ==
  resolved.pc = "done" /\ resolved.stored = {} => resolved.result = Null

\* C7's case: resolveRedirect returned null for an id that has neither a
\* redirect nor a post row, while other redirects are stored.
C7_ResolvedNullWithoutPost ==
  /\ resolved.pc = "done" /\ resolved.stored = {} /\ resolved.failed = {}
  /\ resolved.result = Null
  /\ redirects # {}
  /\ \A p \in posts : p.id # resolved.postId

\* C8: a call of resolveRedirect whose lookups all succeeded returns, for a
\* url redirect and for a post redirect whose target post exists, the stored
\* status code (one of 301, 302, 307, 308) with the stored target: the url,
\* or the id, slug and title of the target post.
C8_StoredStatusAndTarget ==
  resolved.pc = "done" /\ resolved.failed = {} =>
    \A r \in resolved.stored :
      /\ r.redirect_type = "url" =>
           /\ resolved.result = [type |-> "url", httpStatus |-> r.http_status_code,
                                 target |-> [url |-> r.target_url], notes |-> r.notes]
           /\ r.http_status_code \in HttpStatusCodes
      /\ \A p \in resolved.storedTarget :
           r.redirect_type = "post" =>
             /\ resolved.result.type = "post"
             /\ resolved.result.httpStatus = r.http_status_code
             /\ r.http_status_code \in HttpStatusCodes
             /\ resolved.result.target =
                  [postId |-> r.target_post_id, slug |-> p.slug, title |-> p.title]

\* C8's case: resolveRedirect answered a post redirect stored with a status
\* code other than the default.
C8_ResolvedPostWithStoredCode ==
  /\ resolved.pc = "done" /\ resolved.failed = {}
  /\ resolved.result.type = "post"
  /\ resolved.result.httpStatus = 302
  /\ resolved.storedTarget # {}

\* C9: a call of resolveRedirect whose lookups all succeeded and that found a
\* post redirect but no row for its target post returns type 'post' with
\* status 410, the stored target id and an error text.
C9_MissingTargetGives410 ==
  resolved.pc = "done" /\ resolved.failed = {} =>
    \A r \in resolved.stored :
      r.redirect_type = "post" /\ resolved.storedTarget = {} =>
        /\ resolved.result.type = "post"
        /\ resolved.result.httpStatus = 410
        /\ resolved.result.target =
             [postId |-> r.target_post_id, error |-> "Target post has been deleted"]

\* C9's case: the redirect was stored with status 302, its target post was
\* gone when resolveRedirect looked for it, and the answer is 410.
C9_ResolvedGone ==
  /\ resolved.pc = "done" /\ resolved.failed = {}
  /\ \E r \in resolved.stored : r.redirect_type = "post" /\ r.http_status_code = 302
  /\ resolved.storedTarget = {}
  /\ resolved.result.httpStatus = 410

\* C10 as stated: a call of resolveRedirect one of whose lookups failed
\* returns null.
C10_FailsOpen ==
  resolved.pc = "done" /\ resolved.failed # {} => resolved.result = Null

\* A step of a read operation: resolveRedirect, checkRedirectExists,
\* getInboundRedirects, validateTargetPostDeletion or the validate route's
\* validateRedirect produced its return value.
ReadStep ==
  \/ resolved' # resolved
  \/ read' # read
  \/ resp' # resp /\ resp'.op = "VALIDATE"

\* The caller's two calls of resolveRedirect(P) have returned and the store
\* is what it was when the first call began.
TwoCallsSameStore ==
  /\ earlier.n = 2
  /\ resolved.pc = "done"
  /\ earlier.store = <<redirects, posts, idSeq>>

SourcePostDeletedBetween ==
  /\ earlier.n = 2
  /\ resolved.pc = "done"
  /\ earlier.store[1] = redirects /\ earlier.store[3] = idSeq
  /\ posts = {p \in earlier.store[2] : p.id # resolved.postId}
  /\ posts # earlier.store[2]

PostRedirectsTo(B) ==
  {r \in redirects : r.redirect_type = "post" /\ r.target_post_id = B}

GuardText ==
  "Cannot delete this post. redirect(s) point to it. Please remove or update these redirects first."

\* C13: with the lookup answered, validateTargetPostDeletion(B) is invalid
\* with one error that names the number of post-type redirects targeting B
\* when there is at least one, and valid with no error when there is none
\* (so also once each has been deleted or repointed).
C13_GuardCountsInbound ==
  \A B \in 1..(GuardPosts + 1) :
    LET result == validateTargetPostDeletion(redirects, posts, B, FALSE)
        n == Cardinality(PostRedirectsTo(B))
    IN /\ n > 0 => /\ ~result.valid
                   /\ Len(result.errors) = 1
                   /\ result.errors[1] = [text |-> GuardText, count |-> n]
       /\ n = 0 => result.valid /\ result.errors = <<>>
       /\ result.warnings = <<>>

\* C13's case: the guard answered that two redirects point to post 2; since
\* then each was deleted or repointed, one of them is still stored, and the
\* guard now finds post 2 deletable.
C13_GuardLiftedAfterRepoint ==
  /\ read.op = "validateTargetPostDeletion" /\ read.postId = 2
  /\ ~read.validation.valid
  /\ read.validation.errors = <<[text |-> GuardText, count |-> 2]>>
  /\ PostRedirectsTo(2) = {}
  /\ redirects # {}
  /\ validateTargetPostDeletion(redirects, posts, 2, FALSE).valid

\* C14: when its lookup fails, validateTargetPostDeletion returns valid=true
\* with no error and exactly one warning, that inbound redirects could not be
\* checked, whatever redirects target the post.
C14_GuardFailsOpen ==
  \A B \in 1..(GuardPosts + 1) :
    validateTargetPostDeletion(redirects, posts, B, TRUE) =
      [valid |-> TRUE, errors |-> <<>>,
       warnings |-> <<[text |-> "Could not check for inbound redirects", count |-> 0]>>]

\* C14's case: the guard's lookup failed while a redirect targets the post,
\* and the guard answered valid with the warning.
C14_GuardPassedUnchecked ==
  /\ read.op = "validateTargetPostDeletion"
  /\ PostRedirectsTo(read.postId) # {}
  /\ read.validation.valid
  /\ Len(read.validation.warnings) = 1

\* C15 as stated: every post the mapper returns (mapPostFromDB and
\* mapPostsFromDB) carries a redirect field equal to the decision of
\* resolveRedirect for the post: null when the store holds no redirect for
\* it, the stored url decision when it holds a url redirect.  Only mapper
\* calls with no failed lookup are considered.
C15_MapperAttachesDecision ==
  \A m \in read.mapped :
    m.failed = {} =>
      /\ m.stored = {} => m.redirect = Null
      /\ \A r \in m.stored : r.redirect_type = "url" => m.redirect = UrlResult(r)

DraftText == "Target post is currently a draft and may not be publicly accessible"
HttpText == "Using HTTP instead of HTTPS may cause security warnings"
MissingText == "Target post does not exist"

\* The results of validateRedirect on the store as it is, for every source,
\* type, target, redirect id and combination of failing lookups.
Verdicts ==
  {validateRedirect(redirects, posts, s, "post", t, NoUrl, id, f) :
     s \in PostIds, t \in PostIds \cup {NoPost}, id \in ValidateIds, f \in Faults}
    \cup {validateRedirect(redirects, posts, s, "url", NoPost, url, id, f) :
            s \in PostIds, url \in Urls \cup {NoUrl}, id \in ValidateIds, f \in Faults}

\* C16: every result of validateRedirect is valid exactly when its list of
\* errors is empty, whatever warnings it carries.
C16_ValidIffNoErrors ==
  \A result \in Verdicts : result.valid <=> result.errors = <<>>

\* C16's case: on one store validateRedirect returns a valid result with a
\* warning and an invalid result with a warning, and the validate route has
\* answered an invalid result together with its warning.
C16_WarningsBesideBoth ==
  /\ \E result \in Verdicts : result.valid /\ result.warnings # <<>>
  /\ \E result \in Verdicts : ~result.valid /\ result.warnings # <<>>
  /\ resp.op = "VALIDATE" /\ ~resp.valid
  /\ resp.errors # <<>> /\ resp.warnings = <<DraftText>>

\* C17: for a source with no redirect, whichever redirect id is passed and
\* whichever lookup fails, a url proposal is rejected when the URL does not
\* parse or its scheme is neither http nor https, is valid with exactly the
\* http warning for an http URL, and is valid with no warning for https.
C17_UrlSchemes ==
  \A s \in PostIds, id \in ValidateIds, f \in Faults :
    RedirectFor(redirects, s) = {} =>
      LET result(url) == validateRedirect(redirects, posts, s, "url", NoPost, url, id, f)
      IN /\ ~result("not a url").valid
         /\ result("not a url").errors = <<Msg("Invalid URL format")>>
         /\ ~result("ftp://example.com").valid
         /\ result("ftp://example.com").errors = <<Msg("Only HTTP and HTTPS URLs are allowed")>>
         /\ result(Http) = [valid |-> TRUE, errors |-> <<>>, warnings |-> <<Msg(HttpText)>>]
         /\ result(Https) = [valid |-> TRUE, errors |-> <<>>, warnings |-> <<>>]

\* C17's case: while another post has a redirect, the validate route found
\* an http URL valid with the http warning.
C17_HttpValidWithWarning ==
  /\ resp.op = "VALIDATE" /\ resp.valid
  /\ resp.errors = <<>> /\ resp.warnings = <<HttpText>>
  /\ redirects # {}

\* C18: for a post proposal with S # T, whichever redirect id is passed: when
\* no post row exists for T the result is invalid with 'Target post does not
\* exist', whichever lookup fails; when T's row is a draft and its lookup is
\* answered the result carries the draft warning, and it is valid when S has
\* no redirect and no chain of redirects from T reaches S.
C18_TargetMustExist ==
  \A S \in PostIds, T \in PostIds, id \in ValidateIds, f \in Faults :
    S # T =>
      LET result == validateRedirect(redirects, posts, S, "post", T, NoUrl, id, f)
          trail == Trail(redirects, T, MaxDepth)
      IN /\ (\A p \in posts : p.id # T) =>
              result = [valid |-> FALSE, errors |-> <<Msg(MissingText)>>, warnings |-> <<>>]
         /\ (\E p \in posts : p.id = T /\ p.status = "draft") /\ ~f.target =>
              /\ result.warnings # <<>> /\ result.warnings[1] = Msg(DraftText)
              /\ (RedirectFor(redirects, S) = {} /\ \A i \in DOMAIN trail : trail[i] # S)
                   => result.valid

\* C18's case: the validate route rejected a proposal whose target has no
\* post row with 'Target post does not exist', while the store holds a
\* redirect to a draft post.
C18_MissingTargetRejected ==
  /\ resp.op = "VALIDATE" /\ ~resp.valid /\ resp.errors = <<MissingText>>
  /\ \E r \in redirects : \E p \in posts : p.id = r.target_post_id /\ p.status = "draft"

\* C19 as stated: when a create request reaches its insert while the store
\* already holds a redirect for its source, so that the uniqueness
\* constraint refuses the insert, the request is answered 409 with 'A
\* redirect already exists for this source post'.
C19_LoserGetsConflict ==
  [][\A i \in DOMAIN reqs :
       (/\ reqs[i].pc = "insert"
        /\ reqs' = Drop(i)
        /\ RedirectFor(redirects, reqs[i].body.sourcePostId) # {})
       => resp'.status = 409 /\ resp'.errors = <<ExistsText>>]_vars

NotFound(op) == Failure(op, 404, "Redirect not found")

\* C20: in every store, for every redirect and every account other than its
\* creator: an update is not applied and leaves the store unchanged, and when
\* its body passes the request schema it is answered 'Redirect not found'; a
\* delete is answered 'Redirect not found' and leaves the store unchanged.  A
\* create is answered 201 only when the caller is the author of the source
\* post.  And a call of resolveRedirect whose lookups were answered returns a
\* decision for the redirect it found, whichever account created it.
C20_WritesOwnedReadsOpen ==
  /\ \A r \in redirects : \A u \in Users \ {r.created_by} :
       /\ \A body \in OwnerUpdateBodies \cup UpdateBodies :
            LET out == PutOutcome(redirects, posts, u, r.id, body)
            IN /\ out.redirects = redirects
               /\ out.resp.status # 200
               /\ updateRedirectSchema(body) = "" => out.resp = NotFound("PUT")
       /\ DeleteOutcome(redirects, u, r.id) = [resp |-> NotFound("DELETE"), redirects |-> redirects]
  /\ \A u \in Users, body \in RaceBodies \cup CreateBodies :
       PostOutcome(redirects, posts, idSeq, u, body).resp.status = 201 =>
         \E p \in posts : p.id = body.sourcePostId /\ p.author_id = u
  /\ resolved.pc = "done" /\ resolved.failed = {} =>
       \A r \in resolved.stored :
         /\ resolved.result # Null
         /\ resolved.result.notes = r.notes
         /\ \A u \in Users :
              /\ UrlResult([r EXCEPT !.created_by = u]) = UrlResult(r)
              /\ GoneResult([r EXCEPT !.created_by = u]) = GoneResult(r)
              /\ \A p \in posts : PostResult([r EXCEPT !.created_by = u], p) = PostResult(r, p)

\* C20's case: the store holds a redirect created by u1 and one created by
\* u2, an update by the account that did not create the redirect was answered
\* 'Redirect not found', and resolveRedirect returned the decision of the
\* redirect that u2 created.
C20_StrangerRefusedReaderServed ==
  /\ \E r1, r2 \in redirects : r1.created_by = "u1" /\ r2.created_by = "u2"
  /\ resp = NotFound("PUT")
  /\ resolved.pc = "done" /\ resolved.failed = {}
  /\ \E r \in resolved.stored : r.created_by = "u2" /\ r \in redirects
  /\ resolved.result.type = "post"

\* C21: every stored redirect has exactly one target, the one its type
\* names: a post redirect has target_post_id and no target_url, a url
\* redirect has target_url and no target_post_id.  Create keeps this, and so
\* does every update the validator passes, whatever it switches or supplies:
\* the row the handler writes has one target before the table checks it.
C21_OneTargetOfItsType ==
  /\ \A r \in redirects : ValidRedirectCheck(r)
  /\ \A r \in redirects : \A body \in RewriteBodies :
       LET newRedirectType ==
             IF body.redirectType # NoType THEN body.redirectType ELSE r.redirect_type
           newTargetPostId ==
             IF body.targetPostId # NoPost THEN body.targetPostId ELSE r.target_post_id
           newTargetUrl ==
             IF body.targetUrl # NoUrl THEN body.targetUrl ELSE r.target_url
       IN (/\ updateRedirectSchema(body) = ""
           /\ validateRedirect(redirects, posts, r.source_post_id, newRedirectType,
                               newTargetPostId, newTargetUrl, r.id, NoFaults).valid)
            => ValidRedirectCheck(UpdatedRow(r, body))

\* An accepted update has left post 2's redirect, created as a post
\* redirect, a url redirect.
C21_TypeSwitched ==
  /\ resp.op = "PUT" /\ resp.status = 200
  /\ \E r \in redirects :
       r.source_post_id = 2 /\ r.redirect_type = "url" /\ r.target_post_id = NoPost

ChainText == "Redirect chain detected"

\* The posts T, T1, ... of the first n hops along the post redirects from T.
Hops(rs, T, n) == <<T>> \o Trail(rs, T, n)

\* C22: when the walk from targetPostId has followed MaxDepth hops and none
\* of the posts it stood on was sourcePostId or one it had stood on before,
\* detectCircularRedirect reports no cycle at depth MaxDepth, and
\* validateRedirect carries no circular-redirect error and the chain warning,
\* whatever redirect the post after the last hop has.
C22_NoCycleBeyondCap ==
  \A T \in ChainIds :
    LET hops == Hops(redirects, T, MaxDepth)
    IN (/\ Len(hops) = MaxDepth + 1
        /\ \A i, j \in 1..MaxDepth : i # j => hops[i] # hops[j])
       => \A S \in ChainIds \ {hops[i] : i \in 1..MaxDepth} :
            LET circularCheck == detectCircularRedirect(redirects, S, T, MaxDepth, 0)
                result == validateRedirect(redirects, posts, S, "post", T, NoUrl,
                                           NoId, NoFaults)
            IN /\ ~circularCheck.hasCircle
               /\ circularCheck.chainDepth = MaxDepth
               /\ \A i \in DOMAIN result.errors : result.errors[i].text # CircularText
               /\ \E i \in DOMAIN result.warnings :
                    /\ result.warnings[i].text = ChainText
                    /\ result.warnings[i].depth = MaxDepth

\* The post MaxDepth hops from post 1 redirects back to post 1's chain, and
\* the proposal from that post to post 1 was answered valid with the chain
\* warning.
C22_ProposalOverCycleValid ==
  /\ Len(Trail(redirects, 1, MaxDepth + 1)) = MaxDepth + 1
  /\ resp.op = "VALIDATE" /\ resp.valid
  /\ \E i \in DOMAIN resp.warnings : resp.warnings[i] = ChainText

\* The checks of validateRedirect that the proposal fails on the store, each
\* by the text of its error, in the order required target, self-redirect,
\* target existence, cycle, URL, source uniqueness.
FailingChecks(rs, ps, S, type, T, url, id) ==
  LET trail == Trail(rs, T, MaxDepth - 1)
      check(fails, text) == IF fails THEN <<text>> ELSE <<>>
  IN check(type = "post" /\ T = NoPost,
           "Target post ID is required for post-to-post redirects")
       \o check(type = "post" /\ T # NoPost /\ S = T, SelfText)
       \o check(type = "post" /\ T # NoPost /\ \A q \in ps : q.id # T, MissingText)
       \o check(type = "post" /\ T # NoPost /\ S # T
                  /\ \E i \in DOMAIN trail : trail[i] = S, CircularText)
       \o check(type = "url" /\ url = NoUrl,
                "Target URL is required for post-to-URL redirects")
       \o check(type = "url" /\ url \in {"not a url"}, "Invalid URL format")
       \o check(type = "url" /\ url \in {"ftp://example.com"},
                "Only HTTP and HTTPS URLs are allowed")
       \o check(id = NoId /\ \E r \in rs : r.source_post_id = S, ExistsText)

\* C23: validateRedirect returns at the first check that fails, in the order
\* required target, self-redirect, target existence, cycle detection, URL
\* form and scheme, source uniqueness: a proposal that fails no check is
\* valid, and one that fails some is invalid with exactly one error, that of
\* the earliest check it fails.  Whichever lookup fails, an invalid result
\* carries exactly one error.
C23_FirstFailingCheckOnly ==
  /\ \A S \in PostIds, id \in ValidateIds :
       \A proposal \in
            {<<"post", T, NoUrl>> : T \in PostIds \cup {NoPost}}
              \cup {<<"url", NoPost, url>> : url \in Urls \cup {NoUrl}} :
         LET failing == FailingChecks(redirects, posts, S, proposal[1], proposal[2],
                                      proposal[3], id)
             result == validateRedirect(redirects, posts, S, proposal[1], proposal[2],
                                        proposal[3], id, NoFaults)
         IN IF failing = <<>>
              THEN result.valid
              ELSE /\ ~result.valid
                   /\ Len(result.errors) = 1
                   /\ result.errors[1].text = failing[1]
  /\ \A result \in Verdicts : ~result.valid => Len(result.errors) = 1

\* C23's case: every post has a redirect, so the proposal failed the
\* uniqueness check too, and the validate route answered the missing target
\* alone.
C23_MissingTargetBeforeDuplicate ==
  /\ \A p \in posts : RedirectFor(redirects, p.id) # {}
  /\ resp.op = "VALIDATE" /\ ~resp.valid /\ resp.errors = <<MissingText>>
  /\ Len(FailingChecks(redirects, posts, 1, "post", NumPosts + 1, NoUrl, NoId)) = 2

\* The chain warnings of a result.
ChainWarnings(result) ==
  {result.warnings[i] : i \in {j \in DOMAIN result.warnings :
                                 result.warnings[j].text = ChainText}}

\* C24: for a post proposal S -> T, with T an existing post, that
\* detectCircularRedirect passes, validateRedirect carries a chain warning
\* exactly when T is the source of a post redirect; the warning's depth is
\* the number of post redirects followed from T, at most MaxDepth; a target
\* with no redirect or with a url redirect gives no chain warning.
C24_ChainWarningAndDepth ==
  \A T \in ChainIds :
    LET hops == Len(Trail(redirects, T, MaxDepth))
    IN \A S \in ChainIds \ {T} : \A id \in {NoId, S * (MaxGen + 1) + 1} :
         LET result == validateRedirect(redirects, posts, S, "post", T, NoUrl, id,
                                        NoFaults)
         IN ~detectCircularRedirect(redirects, S, T, MaxDepth, 0).hasCircle =>
              /\ ChainWarnings(result) # {} <=> PostTargets(redirects, T) # {}
              /\ \A w \in ChainWarnings(result) :
                   w.depth = hops /\ w.depth > 0 /\ w.depth <= MaxDepth
              /\ Cardinality(ChainWarnings(result)) <= 1
              /\ (\A r \in RedirectFor(redirects, T) : r.redirect_type = "url")
                   => ChainWarnings(result) = {}

\* C24's case: post 1 has a url redirect, so a proposal with target 1 has no
\* chain warning; the proposal with target 2 has a chain warning whose depth
\* is the length of the chain from post 2; and the validate route has
\* answered a valid proposal with the chain warning.
C24_UrlTargetNoWarningChainCounted ==
  /\ \E r \in RedirectFor(redirects, 1) : r.redirect_type = "url"
  /\ ChainWarnings(validateRedirect(redirects, posts, ChainPosts, "post", 1, NoUrl,
                                    NoId, NoFaults)) = {}
  /\ \E w \in ChainWarnings(validateRedirect(redirects, posts, 1, "post", 2, NoUrl,
                                             FirstId, NoFaults)) :
       w.depth = Len(Trail(redirects, 2, MaxDepth)) /\ w.depth > 1
  /\ resp.op = "VALIDATE" /\ resp.valid
  /\ \E i \in DOMAIN resp.warnings : resp.warnings[i] = ChainText

\* A call of resolveRedirect that found a post redirect and its target post,
\* and whose second-hop lookup was answered, with rows or with an error.
PeekedCall ==
  /\ resolved.pc = "done"
  /\ resolved.failed \subseteq {"peek"}
  /\ resolved.redirect # {} /\ resolved.targetPost # {}
  /\ \A r \in resolved.redirect : r.redirect_type = "post"
  /\ resolved.result # Null

\* C25: for a post redirect S -> T whose target post exists, resolveRedirect
\* returns target T with the stored status code and notes whether its
\* second-hop lookup found a redirect of T, found none or was answered with
\* an error; and the call returns with the step that follows the second-hop
\* lookup, so it looks no further than that hop.
C25_PeekKeepsDecision ==
  /\ [](resolved.pc = "done" /\ resolved.failed \subseteq {"peek"} =>
          \A r \in resolved.redirect : \A p \in resolved.targetPost :
            r.redirect_type = "post" /\ resolved.result # Null =>
              resolved.result =
                [type |-> "post", httpStatus |-> r.http_status_code,
                 target |-> [postId |-> r.target_post_id, slug |-> p.slug,
                             title |-> p.title],
                 notes |-> r.notes])
  /\ [](resolved.pc = "done" /\ resolved.secondHop # {} => resolved.result # Null)
  /\ [][resolved.pc = "peek" => resolved'.pc \in {"peek", "done"}]_vars

\* C25's case: the second-hop lookup found a redirect of the target post,
\* which the store holds as a post redirect to a third post, and the call
\* returned post 1's redirect to post 2 with its stored status.
C25_TargetRedirectsOn ==
  /\ PeekedCall
  /\ resolved.postId = 1
  /\ resolved.secondHop = {[source_post_id |-> 2]}
  /\ \E r \in RedirectFor(redirects, 2) : r.redirect_type = "post" /\ r.target_post_id = 3
  /\ resolved.result.httpStatus = 302
  /\ resolved.result.target.postId = 2

\* C26: on every store, with cycles or with chains as long as the walk's
\* cap, for a source on the site or off it, every target, and whichever of
\* its lookups fails, detectCircularRedirect returns a result after at most
\* MaxDepth lookups.
C26_WalkEndsWithinCap ==
  \A S \in {1, ChainPosts, ChainPosts + 1}, T \in ChainIds \cup {NoPost},
     failHop \in {0, 1, MaxDepth} :
    LET circularCheck == detectCircularRedirect(redirects, S, T, MaxDepth, failHop)
    IN /\ circularCheck.hasCircle \in BOOLEAN
       /\ Lookups(circularCheck) <= MaxDepth
       /\ circularCheck.chainDepth <= Lookups(circularCheck)

\* C26's case: two interleaved creates have closed the cycle 1 -> 3 -> ...
\* -> 1; the walk from post 1 stops at the post it has visited, the walk
\* from post 2 stops after MaxDepth lookups, and the validate route has
\* answered a proposal as circular.
C26_WalksOnStoredCycle ==
  /\ \E r \in redirects : r.source_post_id = 1 /\ r.target_post_id = 3
  /\ \E r \in redirects : r.source_post_id = ChainPosts - 1 /\ r.target_post_id = 1
  /\ LET circularCheck ==
           detectCircularRedirect(redirects, ChainPosts + 1, 1, MaxDepth, 0)
     IN circularCheck.hasCircle /\ Lookups(circularCheck) = ChainPosts - 2
  /\ Lookups(detectCircularRedirect(redirects, ChainPosts + 1, 2, MaxDepth, 0)) = MaxDepth
  /\ resp.op = "VALIDATE" /\ resp.errors = <<CircularText>>

\* What validateRedirect returns to a PUT with `body` for the redirect r.
PutValidation(r, body) ==
  validateRedirect(redirects, posts, r.source_post_id,
                   IF body.redirectType # NoType THEN body.redirectType
                                                 ELSE r.redirect_type,
                   IF body.targetPostId # NoPost THEN body.targetPostId
                                                 ELSE r.target_post_id,
                   IF body.targetUrl # NoUrl THEN body.targetUrl ELSE r.target_url,
                   r.id, NoFaults)

\* C27: a create or update request whose validateRedirect call returns
\* valid = false is answered 400 and leaves the table as it was, so a request
\* that changes the table had its own validation return valid = true; and
\* the table changes only in the step of a create or update answered 201 or
\* 200, or of a delete.
C27_WriteOnlyAfterValid ==
  /\ [](\A body \in ReadBodies :
          LET out == PostOutcome(redirects, posts, idSeq,
                                 PostRow(body.sourcePostId).author_id, body)
              result == validateRedirect(redirects, posts, body.sourcePostId,
                                         body.redirectType, body.targetPostId,
                                         body.targetUrl, NoId, NoFaults)
          IN /\ ~result.valid => out.redirects = redirects /\ out.resp.status = 400
             /\ out.redirects # redirects => result.valid)
  /\ [](\A r \in redirects : \A body \in RewriteBodies :
          LET out == PutOutcome(redirects, posts, r.created_by, r.id, body)
          IN /\ ~PutValidation(r, body).valid =>
                  out.redirects = redirects /\ out.resp.status = 400
             /\ out.redirects # redirects =>
                  updateRedirectSchema(body) = "" /\ PutValidation(r, body).valid)
  /\ [][redirects' # redirects =>
          \/ resp'.op = "POST" /\ resp'.status = 201 /\ resp'.valid
          \/ resp'.op = "PUT" /\ resp'.status = 200 /\ resp'.valid
          \/ resp'.op = "DELETE"]_vars

\* C27's case: an update that would have closed a cycle was refused by its
\* validation, and both redirects are still what the creates stored.
C27_RefusedUpdateLeftStore ==
  /\ resp.op = "PUT" /\ resp.status = 400 /\ resp.errors = <<CircularText>>
  /\ \E r \in redirects : r.source_post_id = 1 /\ r.target_post_id = 2
  /\ \E r \in redirects : r.source_post_id = 2 /\ r.redirect_type = "url"

\* C28 as stated: when create requests for different sources run with their
\* validation and their insert interleaved, no reachable store holds a post
\* redirect whose target leads back, along post redirects, to its source.
C28_NoCycleWhenInterleaved ==
  \A r \in redirects :
    r.redirect_type = "post" =>
      LET trail == <<r.target_post_id>> \o Trail(redirects, r.target_post_id, NumPosts)
      IN \A i \in DOMAIN trail : trail[i] # r.source_post_id

\* C29 as stated: whichever of its lookups fails (the target post lookup, a
\* redirect lookup of the cycle walk, the source lookup), validateRedirect
\* does not return valid = true for a proposal it rejects when every lookup
\* is answered.
C29_FailsClosed ==
  \A S \in PostIds, id \in ValidateIds, f \in Faults :
    \A proposal \in
         {<<"post", T, NoUrl>> : T \in PostIds \cup {NoPost}}
           \cup {<<"url", NoPost, url>> : url \in Urls \cup {NoUrl}} :
      ~validateRedirect(redirects, posts, S, proposal[1], proposal[2], proposal[3],
                        id, NoFaults).valid
        => ~validateRedirect(redirects, posts, S, proposal[1], proposal[2],
                             proposal[3], id, f).valid

\* The columns an update may assign.
UpdateColumns ==
  {"redirect_type", "target_post_id", "target_url", "http_status_code", "notes",
   "updated_at"}

\* C30: the update statement of PUT assigns columns among redirect_type,
\* target_post_id, target_url, http_status_code, notes and updated_at only,
\* and always updated_at, with the clock's reading; an accepted update
\* replaces the addressed row by a row with the same id, source_post_id and
\* created_by that differs from it in the assigned columns only, and leaves
\* every other row as it was.
C30_UpdateFrame ==
  /\ [](\A r \in redirects : \A body \in RewriteBodies : \A now \in Times :
          LET data == updateData(r, body, now)
              out == PutOutcome(redirects, posts, r.created_by, r.id, body)
          IN /\ DOMAIN data \subseteq UpdateColumns
             /\ "updated_at" \in DOMAIN data /\ data["updated_at"] = now
             /\ out.resp.status = 200 =>
                  \E row \in out.redirects :
                    /\ out.redirects = (redirects \ {r}) \cup {row}
                    /\ row.id = r.id
                    /\ row.source_post_id = r.source_post_id
                    /\ row.created_by = r.created_by
                    /\ \A c \in DOMAIN r \ DOMAIN data : row[c] = r[c]
                    /\ \A c \in DOMAIN r \cap DOMAIN data : row[c] = data[c])
  /\ [][resp'.op = "PUT" /\ resp'.status = 200 =>
          \E r \in redirects : \E row \in redirects' :
            /\ redirects' = (redirects \ {r}) \cup {row}
            /\ row.id = r.id
            /\ row.source_post_id = r.source_post_id
            /\ row.created_by = r.created_by]_vars

\* C30's case: both posts have a redirect, and an accepted update has given
\* post 1's redirect the status code 302 and notes, its target and the other
\* redirect being what the creates stored.
C30_StatusAndNotesUpdated ==
  /\ resp.op = "PUT" /\ resp.status = 200
  /\ \E r \in redirects :
       /\ r.id = FirstId /\ r.source_post_id = 1 /\ r.created_by = "u1"
       /\ r.http_status_code = 302 /\ r.notes = "moved"
       /\ r.redirect_type = "post" /\ r.target_post_id = 2
  /\ \E r \in redirects : r.source_post_id = 2 /\ r.http_status_code = DefaultStatusCode
====
